---- MODULE Spec2Model ----
(***************************************************************************)
(* State-machine model of the WaterRejectionTouch filtering engine         *)
(* (src/WaterRejectionTouch.h, src/WaterRejectionTouch.cpp).               *)
(*                                                                         *)
(* The engine is single-threaded and call-and-return: every public method  *)
(* is one atomic action.  The fields of the engine object are the          *)
(* variables; the methods are operators over a record of those fields, so  *)
(* that a method calling another (processMultiTouch -> processTouch) is    *)
(* the composition of the operators.  The millisecond clock (millis()) is  *)
(* the variable now; it only moves forward and stays far below 2^32.       *)
(***************************************************************************)
EXTENDS Integers, Sequences, FiniteSets, TLC

VARIABLES
    screenType,            \* SCREEN_CAPACITIVE / SCREEN_RESISTIVE (compile-time)
    screenWidth,
    screenHeight,
    config,                \* WaterRejectionConfig
    touchHistory,          \* TouchPoint[HISTORY_SIZE], indexed 0..HISTORY_SIZE-1
    historyIndex,
    zones,                 \* TouchZone[ZONE_GRID_SIZE][ZONE_GRID_SIZE]
    gestureState,
    gestureStateTimeout,
    gestureStartPoint,
    waterDropletsRejected,
    validTouches,
    lastValidTouchTime,
    lastValidTouch,
    currentTouchCount,     \* count of the last processMultiTouch batch
    multiTouchPoints,      \* TouchPoint[5], indexed 0..4
    lastTouch,             \* TouchEventHandler::lastTouch
    lastEvent,             \* TouchEventHandler::lastEvent
    wasPressed,            \* getTouchEvent's static wasPressed
    eventLastValidTouch,   \* getTouchEvent's static lastValidTouch
    now,                   \* millis()
    call,                  \* the last public call: [op, touch, flag]
    ret,                   \* what that call returned (TRUE for void methods)
    path,                  \* the return statement processTouch left through
    acceptResults,         \* processTouch calls that returned true since the counters were last zeroed
    foldResults,           \* ... of which returned through the debounce fold (line 99)
    recorded,              \* the samples updateHistory has stored since the history was last cleared
    events,                \* the TouchEvents the handler has produced, oldest first
    eventSamples,          \* the samples passed to this engine's getTouchEvent, oldest first
    derived,               \* the TouchEvents getTouchEvent returned for them
    calls                  \* number of public calls made so far

engineVars == <<screenType, screenWidth, screenHeight, config, touchHistory,
                historyIndex, zones, gestureState, gestureStateTimeout,
                gestureStartPoint, waterDropletsRejected, validTouches,
                lastValidTouchTime, lastValidTouch, currentTouchCount,
                multiTouchPoints>>

handlerVars == <<lastTouch, lastEvent, wasPressed, eventLastValidTouch>>

vars == <<screenType, screenWidth, screenHeight, config, touchHistory,
          historyIndex, zones, gestureState, gestureStateTimeout,
          gestureStartPoint, waterDropletsRejected, validTouches,
          lastValidTouchTime, lastValidTouch, currentTouchCount,
          multiTouchPoints, lastTouch, lastEvent, wasPressed,
          eventLastValidTouch, now, call, ret, path,
          acceptResults, foldResults, recorded, events, eventSamples, derived,
          calls>>

(***************************************************************************)
(* Program constants and fixed-width arithmetic.                           *)
(***************************************************************************)
ZONE_GRID_SIZE == 20
HISTORY_SIZE == 20
MULTI_TOUCH_POINTS == 5

U8 == 2^8

\* uint32_t a - b.  When a < b the C value is 2^32 - (b - a); TLC's
\* integers are 32-bit signed, so that value is represented by
\* 2^31 - 1 - (b - a), which like the C value is above every 16-bit threshold
\* it is compared with.  The clock of a bounded run stays far from either limit.
Sub32(a, b) == IF a >= b THEN a - b ELSE 2147483647 - (b - a)

\* uint32_t a + b (a bounded run stays far below the wrap)
Add32(a, b) == a + b

\* abs() of an int difference
Abs(d) == IF d < 0 THEN -d ELSE d

SCREEN_CAPACITIVE == "capacitive"
SCREEN_RESISTIVE == "resistive"
GESTURE_IDLE == "IDLE"
GESTURE_WAITING == "WAITING"
GESTURE_ACTIVE == "ACTIVE"
TOUCH_NONE == "NONE"
TOUCH_START == "START"
TOUCH_MOVE == "MOVE"
TOUCH_END == "END"

\* memset(.., 0, ..) of a TouchPoint and of a TouchZone
ZeroPoint ==
    [x |-> 0, y |-> 0, timestamp |-> 0, pressure |-> 0, area |-> 0, valid |-> FALSE]

ZeroZone ==
    [active |-> FALSE, activationTime |-> 0, touchCount |-> 0, lastTouchTime |-> 0]

\* WaterRejectionConfig's default member initialisers, per screen type
DefaultConfig(st) ==
    IF st = SCREEN_RESISTIVE
    THEN [maxTouchArea |-> 80, minMovement |-> 10, maxStaticTime |-> 800,
          maxSimultaneousTouches |-> 1, touchTimeout |-> 1500,
          gestureTimeout |-> 700, requireGesture |-> FALSE,
          edgeSwipeThreshold |-> 50, swipeMinDistance |-> 150,
          debounceTime |-> 50, pressureThreshold |-> 300]
    ELSE [maxTouchArea |-> 50, minMovement |-> 5, maxStaticTime |-> 500,
          maxSimultaneousTouches |-> 2, touchTimeout |-> 1000,
          gestureTimeout |-> 500, requireGesture |-> FALSE,
          edgeSwipeThreshold |-> 50, swipeMinDistance |-> 150,
          debounceTime |-> 0, pressureThreshold |-> 0]

\* The engine object as a record of its fields
Engine ==
    [screenType |-> screenType, screenWidth |-> screenWidth,
     screenHeight |-> screenHeight, config |-> config,
     touchHistory |-> touchHistory, historyIndex |-> historyIndex,
     zones |-> zones, gestureState |-> gestureState,
     gestureStateTimeout |-> gestureStateTimeout,
     gestureStartPoint |-> gestureStartPoint,
     waterDropletsRejected |-> waterDropletsRejected,
     validTouches |-> validTouches,
     lastValidTouchTime |-> lastValidTouchTime,
     lastValidTouch |-> lastValidTouch,
     currentTouchCount |-> currentTouchCount,
     multiTouchPoints |-> multiTouchPoints]

SetEngine(e) ==
    /\ screenType' = e.screenType
    /\ screenWidth' = e.screenWidth
    /\ screenHeight' = e.screenHeight
    /\ config' = e.config
    /\ touchHistory' = e.touchHistory
    /\ historyIndex' = e.historyIndex
    /\ zones' = e.zones
    /\ gestureState' = e.gestureState
    /\ gestureStateTimeout' = e.gestureStateTimeout
    /\ gestureStartPoint' = e.gestureStartPoint
    /\ waterDropletsRejected' = e.waterDropletsRejected
    /\ validTouches' = e.validTouches
    /\ lastValidTouchTime' = e.lastValidTouchTime
    /\ lastValidTouch' = e.lastValidTouch
    /\ currentTouchCount' = e.currentTouchCount
    /\ multiTouchPoints' = e.multiTouchPoints

\* WaterRejectionTouch::WaterRejectionTouch(width, height)
Construct(st, width, height) ==
    [screenType |-> st, screenWidth |-> width, screenHeight |-> height,
     config |-> DefaultConfig(st),
     touchHistory |-> [i \in 0..(HISTORY_SIZE - 1) |-> ZeroPoint],
     historyIndex |-> 0,
     zones |-> [zx \in 0..(ZONE_GRID_SIZE - 1) |->
                   [zy \in 0..(ZONE_GRID_SIZE - 1) |-> ZeroZone]],
     gestureState |-> GESTURE_IDLE, gestureStateTimeout |-> 0,
     gestureStartPoint |-> ZeroPoint,
     waterDropletsRejected |-> 0, validTouches |-> 0,
     lastValidTouchTime |-> 0, lastValidTouch |-> ZeroPoint,
     currentTouchCount |-> 0,
     multiTouchPoints |-> [i \in 0..(MULTI_TOUCH_POINTS - 1) |-> ZeroPoint]]

(***************************************************************************)
(* The single-sample pipeline.                                             *)
(***************************************************************************)

\* zone index of a coordinate: uint8_t z = (c * ZONE_GRID_SIZE) / extent
ZoneOf(c, extent) == ((c * ZONE_GRID_SIZE) \div extent) % U8

\* the 3x3 neighbourhood loop of checkZoneActivity: dx, dy in -1..1, nx and
\* ny are uint8_t, cells off the grid are skipped
ActiveNeighbors(e, zoneX, zoneY, zs, currentTime) ==
    Cardinality({d \in (-1..1) \X (-1..1) :
        LET nx == (zoneX + d[1]) % U8
            ny == (zoneY + d[2]) % U8
        IN  /\ nx < ZONE_GRID_SIZE
            /\ ny < ZONE_GRID_SIZE
            /\ zs[nx][ny].active
            /\ Sub32(currentTime, zs[nx][ny].activationTime) < e.config.touchTimeout})

\* WaterRejectionTouch::checkZoneActivity; currentTime is millis().
\* Returns the verdict and the zone grid, whose touchCount it increments.
checkZoneActivity(e, zoneX, zoneY, currentTime) ==
    LET z == e.zones[zoneX][zoneY]
        rapid == z.active /\ Sub32(currentTime, z.activationTime) < 100
        cnt == IF rapid THEN (z.touchCount + 1) % U8 ELSE z.touchCount
        zs == [e.zones EXCEPT ![zoneX][zoneY].touchCount = cnt]
    IN  IF rapid /\ cnt > 3
        THEN [hit |-> TRUE, zones |-> zs]
        ELSE [hit |-> ActiveNeighbors(e, zoneX, zoneY, zs, currentTime) > 4,
              zones |-> zs]

\* isWaterPattern without its contact-area test
isWaterPattern_NoAreaTest(e, touch, currentTime) ==
    LET zoneX == ZoneOf(touch.x, e.screenWidth)
        zoneY == ZoneOf(touch.y, e.screenHeight)
    IN  IF zoneX >= ZONE_GRID_SIZE \/ zoneY >= ZONE_GRID_SIZE
        THEN [hit |-> FALSE, zones |-> e.zones]
        ELSE checkZoneActivity(e, zoneX, zoneY, currentTime)

\* WaterRejectionTouch::isWaterPattern
isWaterPattern(e, touch, currentTime) ==
    IF touch.area > e.config.maxTouchArea
    THEN [hit |-> TRUE, zones |-> e.zones]
    ELSE LET zoneX == ZoneOf(touch.x, e.screenWidth)
             zoneY == ZoneOf(touch.y, e.screenHeight)
         IN  IF zoneX >= ZONE_GRID_SIZE \/ zoneY >= ZONE_GRID_SIZE
             THEN [hit |-> FALSE, zones |-> e.zones]
             ELSE checkZoneActivity(e, zoneX, zoneY, currentTime)

\* the staticCount loop of isStaticTouch
StaticCount(e, touch) ==
    Cardinality({i \in 0..(HISTORY_SIZE - 1) :
        /\ e.touchHistory[i].valid
        /\ Sub32(touch.timestamp, e.touchHistory[i].timestamp) < e.config.maxStaticTime
        /\ Abs(e.touchHistory[i].x - touch.x) < e.config.minMovement
        /\ Abs(e.touchHistory[i].y - touch.y) < e.config.minMovement})

\* isStaticTouch with the threshold one higher
isStaticTouch_OneMore(e, touch) == StaticCount(e, touch) > 6

\* WaterRejectionTouch::isStaticTouch
isStaticTouch(e, touch) == StaticCount(e, touch) > 5

\* WaterRejectionTouch::updateZones
updateZones(e, touch) ==
    LET zoneX == ZoneOf(touch.x, e.screenWidth)
        zoneY == ZoneOf(touch.y, e.screenHeight)
    IN  IF zoneX < ZONE_GRID_SIZE /\ zoneY < ZONE_GRID_SIZE
        THEN LET z == e.zones[zoneX][zoneY]
                 \* activationTime is overwritten before it is compared
                 act == touch.timestamp
                 cnt == IF Sub32(touch.timestamp, act) < 100
                        THEN (z.touchCount + 1) % U8
                        ELSE 1
             IN  [e.zones EXCEPT ![zoneX][zoneY] =
                     [active |-> TRUE, activationTime |-> act,
                      touchCount |-> cnt, lastTouchTime |-> touch.timestamp]]
        ELSE e.zones

\* updateHistory whose cursor is not wrapped at HISTORY_SIZE
updateHistory_NoWrap(e, touch) ==
    [e EXCEPT !.touchHistory[e.historyIndex] = touch,
              !.historyIndex = e.historyIndex + 1]

\* WaterRejectionTouch::updateHistory
updateHistory(e, touch) ==
    [e EXCEPT !.touchHistory[e.historyIndex] = touch,
              !.historyIndex = (e.historyIndex + 1) % HISTORY_SIZE]

\* validateGesture whose Waiting state never checks its deadline
validateGesture_NoWaitingDeadline(e, touch) ==
    LET currentTime == touch.timestamp
    IN  CASE e.gestureState = GESTURE_IDLE ->
               IF touch.x < e.config.edgeSwipeThreshold
               THEN [ok |-> FALSE,
                     e |-> [e EXCEPT !.gestureState = GESTURE_WAITING,
                                     !.gestureStateTimeout =
                                         Add32(currentTime, e.config.gestureTimeout),
                                     !.gestureStartPoint = touch]]
               ELSE [ok |-> FALSE, e |-> e]
          [] e.gestureState = GESTURE_WAITING ->
               IF touch.x - e.gestureStartPoint.x > e.config.swipeMinDistance
               THEN [ok |-> TRUE,
                     e |-> [e EXCEPT !.gestureState = GESTURE_ACTIVE,
                                     !.gestureStateTimeout = Add32(currentTime, 30000)]]
               ELSE [ok |-> FALSE, e |-> e]
          [] OTHER ->
               IF currentTime > e.gestureStateTimeout
               THEN [ok |-> FALSE, e |-> [e EXCEPT !.gestureState = GESTURE_IDLE]]
               ELSE [ok |-> TRUE, e |-> e]

\* validateGesture whose Active state refreshes the deadline on every
\* approved sample
validateGesture_ActiveRefreshesDeadline(e, touch) ==
    LET currentTime == touch.timestamp
    IN  CASE e.gestureState = GESTURE_IDLE ->
               IF touch.x < e.config.edgeSwipeThreshold
               THEN [ok |-> FALSE,
                     e |-> [e EXCEPT !.gestureState = GESTURE_WAITING,
                                     !.gestureStateTimeout =
                                         Add32(currentTime, e.config.gestureTimeout),
                                     !.gestureStartPoint = touch]]
               ELSE [ok |-> FALSE, e |-> e]
          [] e.gestureState = GESTURE_WAITING ->
               IF currentTime > e.gestureStateTimeout
               THEN [ok |-> FALSE, e |-> [e EXCEPT !.gestureState = GESTURE_IDLE]]
               ELSE IF touch.x - e.gestureStartPoint.x > e.config.swipeMinDistance
               THEN [ok |-> TRUE,
                     e |-> [e EXCEPT !.gestureState = GESTURE_ACTIVE,
                                     !.gestureStateTimeout = Add32(currentTime, 30000)]]
               ELSE [ok |-> FALSE, e |-> e]
          [] OTHER ->
               IF currentTime > e.gestureStateTimeout
               THEN [ok |-> FALSE, e |-> [e EXCEPT !.gestureState = GESTURE_IDLE]]
               ELSE [ok |-> TRUE,
                     e |-> [e EXCEPT !.gestureStateTimeout = Add32(currentTime, 30000)]]

\* WaterRejectionTouch::validateGesture: the verdict and the engine after it
validateGesture(e, touch) ==
    LET currentTime == touch.timestamp
    IN  CASE e.gestureState = GESTURE_IDLE ->
               IF touch.x < e.config.edgeSwipeThreshold
               THEN [ok |-> FALSE,
                     e |-> [e EXCEPT !.gestureState = GESTURE_WAITING,
                                     !.gestureStateTimeout =
                                         Add32(currentTime, e.config.gestureTimeout),
                                     !.gestureStartPoint = touch]]
               ELSE [ok |-> FALSE, e |-> e]
          [] e.gestureState = GESTURE_WAITING ->
               IF currentTime > e.gestureStateTimeout
               THEN [ok |-> FALSE, e |-> [e EXCEPT !.gestureState = GESTURE_IDLE]]
               ELSE IF touch.x - e.gestureStartPoint.x > e.config.swipeMinDistance
               THEN [ok |-> TRUE,
                     e |-> [e EXCEPT !.gestureState = GESTURE_ACTIVE,
                                     !.gestureStateTimeout = Add32(currentTime, 30000)]]
               ELSE [ok |-> FALSE, e |-> e]
          [] OTHER ->
               IF currentTime > e.gestureStateTimeout
               THEN [ok |-> FALSE, e |-> [e EXCEPT !.gestureState = GESTURE_IDLE]]
               ELSE [ok |-> TRUE, e |-> e]

\* the bounds check with > for >= on the right border
OutOfBounds_RightBorderIn(e, touch) ==
    \/ touch.x < 0
    \/ touch.x > e.screenWidth
    \/ touch.y < 0
    \/ touch.y >= e.screenHeight

\* the bounds check of processTouch (lines 78-79)
OutOfBounds(e, touch) ==
    \/ touch.x < 0
    \/ touch.x >= e.screenWidth
    \/ touch.y < 0
    \/ touch.y >= e.screenHeight

\* the pressure check of processTouch (line 86)
PressureTooLow(e, touch) ==
    e.config.pressureThreshold > 0 /\ touch.pressure < e.config.pressureThreshold

\* the debounce window test of processTouch (lines 91-93)
InDebounceWindow(e, touch) ==
    /\ e.config.debounceTime > 0
    /\ Sub32(touch.timestamp, e.lastValidTouchTime) < e.config.debounceTime

\* the same-position test of the debounce check (lines 95-98)
SameTouchPosition(e, touch) ==
    /\ Abs(touch.x - e.lastValidTouch.x) < e.config.minMovement
    /\ Abs(touch.y - e.lastValidTouch.y) < e.config.minMovement

\* the accept path without the debounce reference update
AcceptTouch_NoDebounceReference(e, touch) ==
    LET h == updateHistory(e, touch)
    IN  [h EXCEPT !.zones = updateZones(h, touch),
                  !.validTouches = Add32(h.validTouches, 1)]

\* the accept path of processTouch (lines 123-132)
AcceptTouch(e, touch) ==
    LET h == updateHistory(e, touch)
    IN  [h EXCEPT !.zones = updateZones(h, touch),
                  !.lastValidTouchTime = touch.timestamp,
                  !.lastValidTouch = touch,
                  !.validTouches = Add32(h.validTouches, 1)]

\* the water-pattern and static tests of processTouch and what follows them
\* (lines 111-132); e is the engine after the gesture gate
WaterTests(e, touch, currentTime) ==
    LET w == isWaterPattern(e, touch, currentTime)
        e1 == [e EXCEPT !.zones = w.zones]
    IN  IF w.hit
        THEN [ret |-> FALSE, path |-> "water",
              e |-> [e1 EXCEPT !.waterDropletsRejected =
                                   Add32(e1.waterDropletsRejected, 1)]]
        ELSE IF isStaticTouch(e1, touch)
        THEN [ret |-> FALSE, path |-> "static",
              e |-> [e1 EXCEPT !.waterDropletsRejected =
                                   Add32(e1.waterDropletsRejected, 1)]]
        ELSE [ret |-> TRUE, path |-> "accept", e |-> AcceptTouch(e1, touch)]

\* the gesture gate counting its own rejections as water droplets
GateAndTests_CountsGateRejects(e, touch, currentTime) ==
    IF e.config.requireGesture
    THEN LET g == validateGesture(e, touch)
         IN  IF ~g.ok
             THEN [ret |-> FALSE, path |-> "gesture",
                   e |-> [g.e EXCEPT !.waterDropletsRejected =
                                         Add32(g.e.waterDropletsRejected, 1)]]
             ELSE WaterTests(g.e, touch, currentTime)
    ELSE WaterTests(e, touch, currentTime)

\* the gesture gate of processTouch and what follows it (lines 106-132)
GateAndTests(e, touch, currentTime) ==
    IF e.config.requireGesture
    THEN LET g == validateGesture(e, touch)
         IN  IF ~g.ok
             THEN [ret |-> FALSE, path |-> "gesture", e |-> g.e]
             ELSE WaterTests(g.e, touch, currentTime)
    ELSE WaterTests(e, touch, currentTime)

\* WaterRejectionTouch::processTouch(const TouchPoint&); currentTime is
\* millis() at the call.  Returns the result, the return statement taken and
\* the engine after the call.
processTouch(e, touch, currentTime) ==
    IF OutOfBounds(e, touch)
    THEN [ret |-> FALSE, path |-> "bounds", e |-> e]
    ELSE IF e.screenType = SCREEN_RESISTIVE /\ PressureTooLow(e, touch)
    THEN [ret |-> FALSE, path |-> "pressure", e |-> e]
    ELSE IF e.screenType = SCREEN_RESISTIVE /\ InDebounceWindow(e, touch)
    THEN IF SameTouchPosition(e, touch)
         THEN [ret |-> TRUE, path |-> "debounceAccept", e |-> e]
         ELSE [ret |-> FALSE, path |-> "debounceReject", e |-> e]
    ELSE GateAndTests(e, touch, currentTime)

(***************************************************************************)
(* The other public methods.                                               *)
(***************************************************************************)

\* WaterRejectionTouch::begin(const WaterRejectionConfig&)
begin(e, customConfig) ==
    [e EXCEPT !.config = customConfig,
              !.touchHistory = [i \in 0..(HISTORY_SIZE - 1) |-> ZeroPoint],
              !.zones = [zx \in 0..(ZONE_GRID_SIZE - 1) |->
                            [zy \in 0..(ZONE_GRID_SIZE - 1) |-> ZeroZone]],
              !.historyIndex = 0,
              !.gestureState = GESTURE_IDLE,
              !.waterDropletsRejected = 0,
              !.validTouches = 0]

\* clearOldZones that also clears a cell whose age equals the zone timeout
clearOldZones_AtTimeout(e, currentTime) ==
    [e EXCEPT !.zones =
        [zx \in 0..(ZONE_GRID_SIZE - 1) |->
            [zy \in 0..(ZONE_GRID_SIZE - 1) |->
                LET z == e.zones[zx][zy]
                IN  IF z.active /\ Sub32(currentTime, z.lastTouchTime) >= e.config.touchTimeout
                    THEN [z EXCEPT !.active = FALSE, !.touchCount = 0]
                    ELSE z]]]

\* WaterRejectionTouch::clearOldZones; currentTime is millis()
clearOldZones(e, currentTime) ==
    [e EXCEPT !.zones =
        [zx \in 0..(ZONE_GRID_SIZE - 1) |->
            [zy \in 0..(ZONE_GRID_SIZE - 1) |->
                LET z == e.zones[zx][zy]
                IN  IF z.active /\ Sub32(currentTime, z.lastTouchTime) > e.config.touchTimeout
                    THEN [z EXCEPT !.active = FALSE, !.touchCount = 0]
                    ELSE z]]]

\* WaterRejectionTouch::update; currentTime is millis()
update(e, currentTime) ==
    LET c == clearOldZones(e, currentTime)
    IN  IF /\ c.gestureState \in {GESTURE_WAITING, GESTURE_ACTIVE}
           /\ currentTime > c.gestureStateTimeout
        THEN [c EXCEPT !.gestureState = GESTURE_IDLE]
        ELSE c

\* WaterRejectionTouch::setConfig
setConfig(e, newConfig) == [e EXCEPT !.config = newConfig]

\* WaterRejectionTouch::setMaxTouchArea
setMaxTouchArea(e, area) == [e EXCEPT !.config.maxTouchArea = area]

\* WaterRejectionTouch::setRequireGesture
setRequireGesture(e, require) ==
    [e EXCEPT !.config.requireGesture = require,
              !.gestureState = IF require THEN e.gestureState ELSE GESTURE_IDLE]

\* WaterRejectionTouch::setScreenDimensions
setScreenDimensions(e, width, height) ==
    [e EXCEPT !.screenWidth = width, !.screenHeight = height]

\* WaterRejectionTouch::enableGestureMode
enableGestureMode(e) ==
    [e EXCEPT !.config.requireGesture = TRUE, !.gestureState = GESTURE_IDLE]

\* WaterRejectionTouch::disableGestureMode
disableGestureMode(e) ==
    [e EXCEPT !.config.requireGesture = FALSE, !.gestureState = GESTURE_IDLE]

\* WaterRejectionTouch::resetGesture
resetGesture(e) == [e EXCEPT !.gestureState = GESTURE_IDLE]

\* resetStatistics that also clears the history
resetStatistics_ClearsHistory(e) ==
    [e EXCEPT !.waterDropletsRejected = 0, !.validTouches = 0,
              !.touchHistory = [i \in 0..(HISTORY_SIZE - 1) |-> ZeroPoint],
              !.historyIndex = 0]

\* WaterRejectionTouch::resetStatistics
resetStatistics(e) == [e EXCEPT !.waterDropletsRejected = 0, !.validTouches = 0]

\* calibrateForEnvironment whose capacitive wet preset keeps the normal
\* static-touch time
calibrateForEnvironment_WetKeepsStaticTime(e, wetEnvironment) ==
    IF e.screenType = SCREEN_RESISTIVE
    THEN IF wetEnvironment
         THEN [e EXCEPT !.config.maxTouchArea = 60,
                        !.config.maxStaticTime = 400,
                        !.config.maxSimultaneousTouches = 1,
                        !.config.requireGesture = TRUE,
                        !.config.pressureThreshold = 400]
         ELSE [e EXCEPT !.config.maxTouchArea = 80,
                        !.config.maxStaticTime = 800,
                        !.config.maxSimultaneousTouches = 1,
                        !.config.requireGesture = FALSE,
                        !.config.pressureThreshold = 300]
    ELSE IF wetEnvironment
         THEN [e EXCEPT !.config.maxTouchArea = 30,
                        !.config.maxStaticTime = 500,
                        !.config.maxSimultaneousTouches = 1,
                        !.config.requireGesture = TRUE]
         ELSE [e EXCEPT !.config.maxTouchArea = 50,
                        !.config.maxStaticTime = 500,
                        !.config.maxSimultaneousTouches = 2,
                        !.config.requireGesture = FALSE]

\* WaterRejectionTouch::calibrateForEnvironment (setWetModeEnabled forwards to it)
calibrateForEnvironment(e, wetEnvironment) ==
    IF e.screenType = SCREEN_RESISTIVE
    THEN IF wetEnvironment
         THEN [e EXCEPT !.config.maxTouchArea = 60,
                        !.config.maxStaticTime = 400,
                        !.config.maxSimultaneousTouches = 1,
                        !.config.requireGesture = TRUE,
                        !.config.pressureThreshold = 400]
         ELSE [e EXCEPT !.config.maxTouchArea = 80,
                        !.config.maxStaticTime = 800,
                        !.config.maxSimultaneousTouches = 1,
                        !.config.requireGesture = FALSE,
                        !.config.pressureThreshold = 300]
    ELSE IF wetEnvironment
         THEN [e EXCEPT !.config.maxTouchArea = 30,
                        !.config.maxStaticTime = 300,
                        !.config.maxSimultaneousTouches = 1,
                        !.config.requireGesture = TRUE]
         ELSE [e EXCEPT !.config.maxTouchArea = 50,
                        !.config.maxStaticTime = 500,
                        !.config.maxSimultaneousTouches = 2,
                        !.config.requireGesture = FALSE]

\* the TouchPoint built by processTouch(int16_t x, int16_t y)
TouchXY(x, y, currentTime) ==
    [x |-> x, y |-> y, timestamp |-> currentTime, pressure |-> 128,
     area |-> 10, valid |-> TRUE]

\* the TouchPoint built by processTouch(int16_t x, int16_t y, uint8_t pressure)
TouchXYP(x, y, pressure, currentTime) ==
    [x |-> x, y |-> y, timestamp |-> currentTime, pressure |-> pressure,
     area |-> pressure \div 5, valid |-> TRUE]

(***************************************************************************)
(* The multi-touch analyzer.  The code computes in float; the model        *)
(* computes in integers and, where the integer bounds of a float           *)
(* comparison do not decide it, allows both outcomes.                      *)
(***************************************************************************)

\* sqrt(): the integer part of the square root of n, for 0 <= n < 46341^2
RECURSIVE ISqrtBetween(_, _, _)
ISqrtBetween(n, lo, hi) ==
    IF lo = hi THEN lo
    ELSE LET mid == (lo + hi + 1) \div 2
         IN  IF mid * mid <= n THEN ISqrtBetween(n, mid, hi)
             ELSE ISqrtBetween(n, lo, mid - 1)

ISqrt(n) == ISqrtBetween(n, 0, 46340)

\* sqrt(dx * dx + dy * dy) in sixteenths of a coordinate unit, rounded down
Distance16(p, q) ==
    LET dx == p.x - q.x
        dy == p.y - q.y
    IN  ISqrt(256 * (dx * dx + dy * dy))

RECURSIVE SumOver(_, _)
SumOver(f, S) ==
    IF S = {} THEN 0
    ELSE LET m == CHOOSE m \in S : TRUE IN f[m] + SumOver(f, S \ {m})

\* the (i, j) the two loops of calculateTouchClusterDensity visit
DensityPairs(count) ==
    {pr \in (0..3) \X (0..(MULTI_TOUCH_POINTS - 1)) :
        pr[1] < count - 1 /\ pr[1] < pr[2] /\ pr[2] < count}

\* WaterRejectionTouch::calculateTouchClusterDensity: totalDistance (in
\* sixteenths, each distance rounded down) and pairCount
calculateTouchClusterDensity(e) ==
    LET pairs == DensityPairs(e.currentTouchCount)
        dist == [pr \in pairs |->
                    Distance16(e.multiTouchPoints[pr[1]], e.multiTouchPoints[pr[2]])]
    IN  [totalDistance16 |-> SumOver(dist, pairs), pairCount |-> Cardinality(pairs)]

\* the values clusterDensity < 50.0f can have: the true total distance lies
\* in [totalDistance16, totalDistance16 + pairCount) sixteenths
DensityBelow50(e) ==
    LET d == calculateTouchClusterDensity(e)
    IN  IF e.currentTouchCount < 2 \/ d.pairCount = 0 THEN {FALSE}
        ELSE IF d.totalDistance16 + d.pairCount <= 50 * 16 * d.pairCount THEN {TRUE}
        ELSE IF d.totalDistance16 >= 50 * 16 * d.pairCount THEN {FALSE}
        ELSE {TRUE, FALSE}

\* the values abs(num / sqrt(a * b)) > 0.9f can have.  A zero denominator
\* with a zero numerator is NaN, whose comparison is false; with a nonzero
\* numerator it is an infinity.
CorrelationAbove09(num, a, b) ==
    LET n == IF num < 0 THEN -num ELSE num
        sa == ISqrt(a)
        sb == ISqrt(b)
    IN  IF a = 0 \/ b = 0 THEN {n # 0}
        ELSE IF 10 * n > 9 * (sa + 1) * (sb + 1) THEN {TRUE}
        ELSE IF 10 * n <= 9 * sa * sb THEN {FALSE}
        ELSE {TRUE, FALSE}

\* the sums of the line-pattern loop, over the first five batch points
LineSums(e) ==
    LET idx == {i \in 0..(MULTI_TOUCH_POINTS - 1) : i < e.currentTouchCount}
        pt == e.multiTouchPoints
    IN  [sumX |-> SumOver([i \in idx |-> pt[i].x], idx),
         sumY |-> SumOver([i \in idx |-> pt[i].y], idx),
         sumXY |-> SumOver([i \in idx |-> pt[i].x * pt[i].y], idx),
         sumX2 |-> SumOver([i \in idx |-> pt[i].x * pt[i].x], idx),
         sumY2 |-> SumOver([i \in idx |-> pt[i].y * pt[i].y], idx)]

\* the two factors under the root of the correlation's denominator, by
\* which checkMultiTouchPattern divides whenever it reaches the line test
LineDenominatorFactors(e) ==
    LET n == e.currentTouchCount
        s == LineSums(e)
    IN  [varX |-> n * s.sumX2 - s.sumX * s.sumX,
         varY |-> n * s.sumY * s.sumY - s.sumY * s.sumY]

\* checkMultiTouchPattern without the cluster-density test
checkMultiTouchPattern_NoDensityTest(e) ==
    LET n == e.currentTouchCount
        s == LineSums(e)
    IN  IF n < 3 THEN {FALSE}
        ELSE CorrelationAbove09(n * s.sumXY - s.sumX * s.sumY,
                                n * s.sumX2 - s.sumX * s.sumX,
                                n * s.sumY * s.sumY - s.sumY * s.sumY)

\* checkMultiTouchPattern with Pearson's denominator, n * sumY2 - sumY^2
checkMultiTouchPattern_Pearson(e) ==
    LET n == e.currentTouchCount
        s == LineSums(e)
    IN  IF n < 2 THEN {FALSE}
        ELSE UNION {IF below /\ n > 2 THEN {TRUE}
                    ELSE IF n >= 3
                    THEN CorrelationAbove09(n * s.sumXY - s.sumX * s.sumY,
                                            n * s.sumX2 - s.sumX * s.sumX,
                                            n * s.sumY2 - s.sumY * s.sumY)
                    ELSE {FALSE} : below \in DensityBelow50(e)}

\* WaterRejectionTouch::checkMultiTouchPattern: the values it can return.
\* The second factor under the root is n * sumY * sumY - sumY * sumY, as in
\* the code.
checkMultiTouchPattern(e) ==
    LET n == e.currentTouchCount
        s == LineSums(e)
    IN  IF n < 2 THEN {FALSE}
        ELSE UNION {IF below /\ n > 2 THEN {TRUE}
                    ELSE IF n >= 3
                    THEN CorrelationAbove09(n * s.sumXY - s.sumX * s.sumY,
                                            n * s.sumX2 - s.sumX * s.sumX,
                                            n * s.sumY * s.sumY - s.sumY * s.sumY)
                    ELSE {FALSE} : below \in DensityBelow50(e)}

\* the per-sample loop of processMultiTouch: acc carries the engine, anyValid
\* and the bookkeeping of the processTouch calls made
RECURSIVE ProcessEach(_, _, _)
ProcessEach(acc, touches, currentTime) ==
    IF touches = <<>> THEN acc
    ELSE LET r == processTouch(acc.e, Head(touches), currentTime)
         IN  ProcessEach(
                 [e |-> r.e,
                  anyValid |-> acc.anyValid \/ r.ret,
                  accepts |-> acc.accepts + (IF r.ret THEN 1 ELSE 0),
                  folds |-> acc.folds + (IF r.path = "debounceAccept" THEN 1 ELSE 0),
                  stored |-> IF r.path = "accept"
                             THEN Append(acc.stored, Head(touches)) ELSE acc.stored],
                 Tail(touches), currentTime)

\* a processMultiTouch result that made no processTouch call
BatchRejected(e, stage) ==
    [ret |-> FALSE, stage |-> stage,
     e |-> [e EXCEPT !.waterDropletsRejected = Add32(@, 1)],
     accepts |-> 0, folds |-> 0, stored |-> <<>>]

\* the result of the per-sample loop
BatchProcessed(e, touches, currentTime) ==
    LET acc == ProcessEach([e |-> e, anyValid |-> FALSE, accepts |-> 0,
                            folds |-> 0, stored |-> <<>>], touches, currentTime)
    IN  [ret |-> acc.anyValid, stage |-> "samples", e |-> acc.e,
         accepts |-> acc.accepts, folds |-> acc.folds, stored |-> acc.stored]

\* the batch copied into multiTouchPoints (at most five points)
CopyTouches(e, touches) ==
    [e EXCEPT !.multiTouchPoints =
        [i \in 0..(MULTI_TOUCH_POINTS - 1) |->
            IF i < Len(touches) THEN touches[i + 1] ELSE @[i]]]

\* processMultiTouch that runs the samples through processTouch before it
\* looks at the simultaneous-touch limit
processMultiTouch_SamplesBeforeLimit(e, touches, currentTime) ==
    LET r == BatchProcessed([e EXCEPT !.currentTouchCount = Len(touches) % U8],
                            touches, currentTime)
    IN  IF Len(touches) % U8 > e.config.maxSimultaneousTouches
        THEN {[r EXCEPT !.ret = FALSE, !.stage = "limit",
                        !.e.waterDropletsRejected = Add32(@, 1)]}
        ELSE {r}

\* WaterRejectionTouch::processMultiTouch(touches, count), count being the
\* length of touches: the results it can have, each with the stage it
\* returned from ("limit", "pattern" or "samples")
processMultiTouch(e, touches, currentTime) ==
    LET count == Len(touches) % U8
        e1 == [e EXCEPT !.currentTouchCount = count]
        e2 == CopyTouches(e1, touches)
    IN  IF count > e.config.maxSimultaneousTouches
        THEN {BatchRejected(e1, "limit")}
        ELSE {IF hit THEN BatchRejected(e2, "pattern")
              ELSE BatchProcessed(e2, touches, currentTime) :
                  hit \in checkMultiTouchPattern(e2)}

(***************************************************************************)
(* Event derivation and TouchEventHandler.  The handler's fields and the   *)
(* two statics of getTouchEvent are carried in one record.                 *)
(***************************************************************************)

Handler ==
    [lastTouch |-> lastTouch, lastEvent |-> lastEvent,
     wasPressed |-> wasPressed, eventLastValidTouch |-> eventLastValidTouch]

SetHandler(h) ==
    /\ lastTouch' = h.lastTouch
    /\ lastEvent' = h.lastEvent
    /\ wasPressed' = h.wasPressed
    /\ eventLastValidTouch' = h.eventLastValidTouch

\* WaterRejectionTouch::getTouchEvent: the event and the statics after it
getTouchEvent(h, current, minMovement) ==
    IF ~current.valid
    THEN IF h.wasPressed
         THEN [event |-> TOUCH_END, h |-> [h EXCEPT !.wasPressed = FALSE]]
         ELSE [event |-> TOUCH_NONE, h |-> h]
    ELSE IF ~h.wasPressed
    THEN [event |-> TOUCH_START,
          h |-> [h EXCEPT !.wasPressed = TRUE, !.eventLastValidTouch = current]]
    ELSE LET dx == Abs(current.x - h.eventLastValidTouch.x)
             dy == Abs(current.y - h.eventLastValidTouch.y)
         IN  IF dx > minMovement \/ dy > minMovement
             THEN [event |-> TOUCH_MOVE,
                   h |-> [h EXCEPT !.eventLastValidTouch = current]]
             ELSE [event |-> TOUCH_NONE, h |-> h]

\* TouchEventHandler::handleTouch, from the TouchPoint it has built: the
\* filter's verdict, the event derived (TOUCH_NONE when the sample was
\* rejected and no event was derived) and the engine and handler after it
handleTouch(e, h, touch, currentTime) ==
    LET r == processTouch(e, touch, currentTime)
        ev == getTouchEvent(h, touch, r.e.config.minMovement)
    IN  IF r.ret
        THEN [ret |-> TRUE, path |-> r.path, e |-> r.e, event |-> ev.event,
              h |-> [ev.h EXCEPT !.lastEvent = ev.event, !.lastTouch = touch]]
        ELSE [ret |-> FALSE, path |-> r.path, e |-> r.e, event |-> TOUCH_NONE,
              h |-> h]

\* TouchEventHandler::update that leaves lastTouch.valid set
TouchEventHandler_update_KeepsValid(e, h, currentTime) ==
    LET e1 == update(e, currentTime)
    IN  IF h.lastTouch.valid /\ Sub32(currentTime, h.lastTouch.timestamp) > 100
        THEN [e |-> e1, ended |-> TRUE, h |-> [h EXCEPT !.lastEvent = TOUCH_END]]
        ELSE [e |-> e1, ended |-> FALSE, h |-> h]

\* TouchEventHandler::update: the engine's sweep, then the release check
TouchEventHandler_update(e, h, currentTime) ==
    LET e1 == update(e, currentTime)
    IN  IF h.lastTouch.valid /\ Sub32(currentTime, h.lastTouch.timestamp) > 100
        THEN [e |-> e1, ended |-> TRUE,
              h |-> [h EXCEPT !.lastTouch.valid = FALSE, !.lastEvent = TOUCH_END]]
        ELSE [e |-> e1, ended |-> FALSE, h |-> h]

(***************************************************************************)
(* Inputs and bounds.                                                      *)
(***************************************************************************)

\* the screen the example sketch constructs the engine for
ExampleWidth == 480
ExampleHeight == 320

\* a run makes at most MaxCalls steps (public calls and clock advances) from
\* its initial state
MaxCalls == 2

\* milliseconds the clock may advance by between two calls: inside the
\* debounce and rapid-contact windows, at the rapid-contact window, past the
\* gesture timeouts, past the 30 s activity timeout
TimeSteps == {40, 100, 800, 30001}

\* sample positions: a left-edge point, the point exactly swipeMinDistance
\* to its right, one beyond it, two of the four points around the corner
\* shared by zones (0,0), (1,0), (0,1), (1,1), and one point outside each
\* screen border
InPoints == {<<0, 10>>, <<150, 10>>, <<200, 10>>, <<23, 16>>, <<24, 16>>}
OutPoints == {<<-1, 10>>, <<ExampleWidth, 10>>, <<200, -1>>, <<200, ExampleHeight>>}

\* pressures passed to processTouch(x, y, pressure)
Pressures == {40, 255}

\* caller-built TouchPoints: an oversized contact inside and outside the
\* screen, and a sample whose valid flag is clear
BuiltPoints ==
    {[x |-> 200, y |-> 10, area |-> 90, valid |-> TRUE],
     [x |-> ExampleWidth, y |-> 10, area |-> 90, valid |-> TRUE],
     [x |-> 0, y |-> 10, area |-> 90, valid |-> TRUE],
     [x |-> 23, y |-> 16, area |-> 10, valid |-> FALSE]}

\* the configuration a caller passes to setConfig and begin: the defaults
\* with a pressure threshold an 8-bit pressure can reach, gesture gating g
CustomConfig(st, g) ==
    [DefaultConfig(st) EXCEPT !.pressureThreshold = 100, !.requireGesture = g]

NoTouch == ZeroPoint

\* a configuration that allows five simultaneous touches
MultiConfig(st) ==
    [DefaultConfig(st) EXCEPT !.pressureThreshold = 100,
                              !.maxSimultaneousTouches = MULTI_TOUCH_POINTS]

\* batches passed to processMultiTouch, as sequences of positions: one
\* sample, a tight pair, the tight diagonal triple, a tight cluster of
\* four, the sparse triple, a sparse triple with two points on the x axis,
\* and a vertical column
Batches ==
    {<< <<200, 10>> >>,
     << <<10, 10>>, <<12, 12>> >>,
     << <<10, 10>>, <<11, 11>>, <<12, 12>> >>,
     << <<100, 100>>, <<120, 100>>, <<100, 120>>, <<130, 140>> >>,
     << <<10, 10>>, <<200, 50>>, <<400, 300>> >>,
     << <<0, 0>>, <<10, 0>>, <<400, 300>> >>,
     << <<100, 10>>, <<100, 150>>, <<100, 300>> >>}

\* positions passed to handleTouch: a point and one further than
\* minMovement from it
HandlerPoints == {<<200, 10>>, <<260, 10>>}

\* handleTouch leaves pressure and area of its TouchPoint uninitialised:
\* values on either side of the pressure and area thresholds
Uninitialised ==
    {[pressure |-> 255, area |-> 10], [pressure |-> 40, area |-> 10],
     [pressure |-> 255, area |-> 200]}

\* the handler is called for at most MaxHandlerTouches samples, and the
\* clock advances in steps of HandlerTick up to MaxTime
MaxHandlerTouches == 2
HandlerTick == 60
MaxTime == 240

\* the TouchPoint array a caller builds from positions at time currentTime
TouchArray(batch, currentTime) ==
    [i \in 1..Len(batch) |->
        [x |-> batch[i][1], y |-> batch[i][2], timestamp |-> currentTime,
         pressure |-> 128, area |-> 10, valid |-> TRUE]]

(***************************************************************************)
(* Initial states: the engine as constructed, and the engine after one of  *)
(* a few fixed call sequences, each replayed from the constructed engine   *)
(* with the operators above.                                               *)
(***************************************************************************)

\* TouchEventHandler::TouchEventHandler: lastEvent is TOUCH_NONE and
\* lastTouch.valid is false (the other fields of lastTouch are not read while
\* valid is false); getTouchEvent's statics are zero-initialised
HandlerConstructed ==
    /\ lastTouch = ZeroPoint
    /\ lastEvent = TOUCH_NONE
    /\ wasPressed = FALSE
    /\ eventLastValidTouch = ZeroPoint

\* a session: the engine, the clock and the bookkeeping variables
NewSession(st) ==
    [e |-> Construct(st, ExampleWidth, ExampleHeight), now |-> 0,
     call |-> [op |-> "construct", touch |-> NoTouch, flag |-> FALSE],
     ret |-> TRUE, path |-> "none", acceptResults |-> 0, foldResults |-> 0,
     recorded |-> <<>>]

\* one scripted call: <<"touch", x, y>> is processTouch(x, y), <<"tick", d>>
\* advances the clock, <<"setConfig", g>> passes CustomConfig,
\* <<"enableGestureMode">>
Step(s, c) ==
    CASE c[1] = "touch" ->
           LET touch == TouchXY(c[2], c[3], s.now)
               r == processTouch(s.e, touch, s.now)
           IN  [s EXCEPT !.e = r.e,
                         !.call = [op |-> "processTouch", touch |-> touch, flag |-> FALSE],
                         !.ret = r.ret, !.path = r.path,
                         !.acceptResults = @ + (IF r.ret THEN 1 ELSE 0),
                         !.foldResults = @ + (IF r.path = "debounceAccept" THEN 1 ELSE 0),
                         !.recorded = IF r.path = "accept" THEN Append(@, touch) ELSE @]
      [] c[1] = "tick" ->
           [s EXCEPT !.now = @ + c[2],
                     !.call = [op |-> "tick", touch |-> NoTouch, flag |-> FALSE],
                     !.ret = TRUE, !.path = "none"]
      [] c[1] = "setConfig" ->
           [s EXCEPT !.e = setConfig(s.e, CustomConfig(s.e.screenType, c[2])),
                     !.call = [op |-> "setConfig", touch |-> NoTouch, flag |-> c[2]],
                     !.ret = TRUE, !.path = "none"]
      [] OTHER ->
           [s EXCEPT !.e = enableGestureMode(s.e),
                     !.call = [op |-> "enableGestureMode", touch |-> NoTouch, flag |-> TRUE],
                     !.ret = TRUE, !.path = "none"]

RECURSIVE Replay(_, _)
Replay(s, script) ==
    IF script = <<>> THEN s ELSE Replay(Step(s, Head(script)), Tail(script))

\* resistive engines first get a configuration whose pressure threshold a
\* sample can pass (the default, 300, is above every 8-bit pressure), and
\* start after the debounce interval that follows clock 0
Usable(st) ==
    IF st = SCREEN_RESISTIVE THEN << <<"setConfig", FALSE>>, <<"tick", 50>> >> ELSE <<>>

\* the same touch twice in the same millisecond: the second is a rapid
\* contact on capacitive and a debounce fold on resistive
TwoTouchScript(st) ==
    Usable(st) \o << <<"touch", 200, 10>>, <<"touch", 200, 10>> >>

\* gesture gate Waiting: an edge sample under gesture gating
WaitingScript(st) ==
    Usable(st) \o << <<"enableGestureMode">>, <<"touch", 0, 10>> >>

\* gesture gate Active: the edge sample and a completing swipe
ActiveScript(st) ==
    WaitingScript(st) \o << <<"tick", 100>>, <<"touch", 200, 10>> >>

\* accepted samples around the corner shared by zones (0,0), (1,0), (0,1)
\* and (1,1), all within 1 px of each other: five on capacitive (two rapid
\* contacts in a cell are accepted), six on resistive (spaced past the
\* debounce interval)
CornerScript(st) ==
    IF st = SCREEN_RESISTIVE
    THEN Usable(st) \o
         << <<"touch", 23, 15>>, <<"tick", 50>>, <<"touch", 24, 15>>, <<"tick", 50>>,
            <<"touch", 23, 16>>, <<"tick", 50>>, <<"touch", 24, 16>>, <<"tick", 50>>,
            <<"touch", 23, 15>>, <<"tick", 50>>, <<"touch", 24, 15>> >>
    ELSE << <<"touch", 23, 15>>, <<"touch", 23, 15>>, <<"touch", 24, 15>>,
            <<"touch", 24, 15>>, <<"touch", 23, 16>> >>

\* HISTORY_SIZE accepted samples at one position, a second apart: the
\* history ring is full and its cursor is back on the first of them
HistoryFullScript(st) ==
    Usable(st) \o
    [i \in 1..(2 * HISTORY_SIZE) |->
        IF i % 2 = 1 THEN <<"touch", 200, 10>> ELSE <<"tick", 1000>>]

Scripts(st) ==
    {<<>>, TwoTouchScript(st), WaitingScript(st), ActiveScript(st), CornerScript(st),
     HistoryFullScript(st)}

(***************************************************************************)
(* Actions: one per public call, and the clock.                            *)
(***************************************************************************)

\* bookkeeping of a call that is not processTouch
Called(op, flag) ==
    /\ calls < MaxCalls
    /\ calls' = calls + 1
    /\ call' = [op |-> op, touch |-> NoTouch, flag |-> flag]
    /\ ret' = TRUE
    /\ path' = "none"
    /\ now' = now
    /\ recorded' = IF op = "begin" THEN <<>> ELSE recorded
    /\ UNCHANGED <<handlerVars, events, eventSamples, derived>>

\* bookkeeping of a processTouch call with result r
CalledProcessTouch(touch, r) ==
    /\ calls < MaxCalls
    /\ calls' = calls + 1
    /\ call' = [op |-> "processTouch", touch |-> touch, flag |-> FALSE]
    /\ ret' = r.ret
    /\ path' = r.path
    /\ now' = now
    /\ acceptResults' = acceptResults + (IF r.ret THEN 1 ELSE 0)
    /\ foldResults' = foldResults + (IF r.path = "debounceAccept" THEN 1 ELSE 0)
    /\ recorded' = IF r.path = "accept" THEN Append(recorded, touch) ELSE recorded
    /\ UNCHANGED <<handlerVars, events, eventSamples, derived>>

\* millis() advances
Tick(d) ==
    /\ calls < MaxCalls
    /\ calls' = calls + 1
    /\ now' = now + d
    /\ call' = [op |-> "tick", touch |-> NoTouch, flag |-> FALSE]
    /\ ret' = TRUE
    /\ path' = "none"
    /\ UNCHANGED <<engineVars, handlerVars, acceptResults, foldResults,
                   recorded, events, eventSamples, derived>>

\* processTouch(x, y)
ProcessTouchXY(x, y) ==
    LET touch == TouchXY(x, y, now)
        r == processTouch(Engine, touch, now)
    IN  /\ SetEngine(r.e)
        /\ CalledProcessTouch(touch, r)

\* processTouch(x, y, pressure)
ProcessTouchXYP(x, y, pressure) ==
    LET touch == TouchXYP(x, y, pressure, now)
        r == processTouch(Engine, touch, now)
    IN  /\ SetEngine(r.e)
        /\ CalledProcessTouch(touch, r)

\* processTouch(const TouchPoint&) with a caller-built sample
ProcessTouchPoint(b) ==
    LET touch == [x |-> b.x, y |-> b.y, timestamp |-> now, pressure |-> 128,
                  area |-> b.area, valid |-> b.valid]
        r == processTouch(Engine, touch, now)
    IN  /\ SetEngine(r.e)
        /\ CalledProcessTouch(touch, r)

\* processMultiTouch(touches, count)
ProcessMultiTouch(batch) ==
    LET touches == TouchArray(batch, now)
    IN  \E r \in processMultiTouch(Engine, touches, now) :
            /\ SetEngine(r.e)
            /\ calls < MaxCalls
            /\ calls' = calls + 1
            /\ call' = [op |-> "processMultiTouch", touch |-> NoTouch,
                        flag |-> FALSE, touches |-> touches]
            /\ ret' = r.ret
            /\ path' = r.stage
            /\ now' = now
            /\ acceptResults' = acceptResults + r.accepts
            /\ foldResults' = foldResults + r.folds
            /\ recorded' = recorded \o r.stored
            /\ UNCHANGED <<handlerVars, events, eventSamples, derived>>

Begin ==
    /\ SetEngine(begin(Engine, config))
    /\ Called("begin", config.requireGesture)
    /\ acceptResults' = 0
    /\ foldResults' = 0

BeginCustom(customConfig) ==
    /\ SetEngine(begin(Engine, customConfig))
    /\ Called("begin", customConfig.requireGesture)
    /\ acceptResults' = 0
    /\ foldResults' = 0

Update ==
    /\ SetEngine(update(Engine, now))
    /\ Called("update", FALSE)
    /\ UNCHANGED <<acceptResults, foldResults>>

SetConfig(newConfig) ==
    /\ SetEngine(setConfig(Engine, newConfig))
    /\ Called("setConfig", newConfig.requireGesture)
    /\ UNCHANGED <<acceptResults, foldResults>>

SetMaxTouchArea(area) ==
    /\ SetEngine(setMaxTouchArea(Engine, area))
    /\ Called("setMaxTouchArea", FALSE)
    /\ UNCHANGED <<acceptResults, foldResults>>

SetRequireGesture(require) ==
    /\ SetEngine(setRequireGesture(Engine, require))
    /\ Called("setRequireGesture", require)
    /\ UNCHANGED <<acceptResults, foldResults>>

SetScreenDimensions(width, height) ==
    /\ SetEngine(setScreenDimensions(Engine, width, height))
    /\ Called("setScreenDimensions", FALSE)
    /\ UNCHANGED <<acceptResults, foldResults>>

EnableGestureMode ==
    /\ SetEngine(enableGestureMode(Engine))
    /\ Called("enableGestureMode", TRUE)
    /\ UNCHANGED <<acceptResults, foldResults>>

DisableGestureMode ==
    /\ SetEngine(disableGestureMode(Engine))
    /\ Called("disableGestureMode", FALSE)
    /\ UNCHANGED <<acceptResults, foldResults>>

ResetGesture ==
    /\ SetEngine(resetGesture(Engine))
    /\ Called("resetGesture", FALSE)
    /\ UNCHANGED <<acceptResults, foldResults>>

ResetStatistics ==
    /\ SetEngine(resetStatistics(Engine))
    /\ Called("resetStatistics", FALSE)
    /\ acceptResults' = 0
    /\ foldResults' = 0

CalibrateForEnvironment(wetEnvironment) ==
    /\ SetEngine(calibrateForEnvironment(Engine, wetEnvironment))
    /\ Called("calibrateForEnvironment", wetEnvironment)
    /\ UNCHANGED <<acceptResults, foldResults>>

SetWetModeEnabled(enabled) ==
    /\ SetEngine(calibrateForEnvironment(Engine, enabled))
    /\ Called("setWetModeEnabled", enabled)
    /\ UNCHANGED <<acceptResults, foldResults>>

Init ==
    /\ \E st \in {SCREEN_CAPACITIVE, SCREEN_RESISTIVE} :
       \E script \in Scripts(st) :
        LET s == Replay(NewSession(st), script)
        IN  /\ screenType = s.e.screenType
            /\ screenWidth = s.e.screenWidth
            /\ screenHeight = s.e.screenHeight
            /\ config = s.e.config
            /\ touchHistory = s.e.touchHistory
            /\ historyIndex = s.e.historyIndex
            /\ zones = s.e.zones
            /\ gestureState = s.e.gestureState
            /\ gestureStateTimeout = s.e.gestureStateTimeout
            /\ gestureStartPoint = s.e.gestureStartPoint
            /\ waterDropletsRejected = s.e.waterDropletsRejected
            /\ validTouches = s.e.validTouches
            /\ lastValidTouchTime = s.e.lastValidTouchTime
            /\ lastValidTouch = s.e.lastValidTouch
            /\ currentTouchCount = s.e.currentTouchCount
            /\ multiTouchPoints = s.e.multiTouchPoints
            /\ now = s.now
            /\ call = s.call
            /\ ret = s.ret
            /\ path = s.path
            /\ acceptResults = s.acceptResults
            /\ foldResults = s.foldResults
            /\ recorded = s.recorded
    /\ HandlerConstructed
    /\ events = <<>>
    /\ eventSamples = <<>>
    /\ derived = <<>>
    /\ calls = 0

Next ==
    \/ \E d \in TimeSteps : Tick(d)
    \/ \E p \in InPoints \cup OutPoints : ProcessTouchXY(p[1], p[2])
    \/ \E pr \in Pressures : ProcessTouchXYP(200, 10, pr)
    \/ \E b \in BuiltPoints : ProcessTouchPoint(b)
    \/ Begin
    \/ \E g \in BOOLEAN : BeginCustom(CustomConfig(screenType, g))
    \/ Update
    \/ \E g \in BOOLEAN : SetConfig(CustomConfig(screenType, g))
    \/ SetMaxTouchArea(5)
    \/ \E b \in BOOLEAN : SetRequireGesture(b)
    \/ SetScreenDimensions(ExampleHeight, ExampleWidth)
    \/ EnableGestureMode
    \/ DisableGestureMode
    \/ ResetGesture
    \/ ResetStatistics
    \/ \E b \in BOOLEAN : CalibrateForEnvironment(b)
    \/ \E b \in BOOLEAN : SetWetModeEnabled(b)

Spec == Init /\ [][Next]_vars

(***************************************************************************)
(* The engine driven through a TouchEventHandler: handleTouch for raw      *)
(* samples, update from the host loop, and the clock.                      *)
(***************************************************************************)

\* the engine object is e
EngineIs(e) ==
    /\ screenType = e.screenType
    /\ screenWidth = e.screenWidth
    /\ screenHeight = e.screenHeight
    /\ config = e.config
    /\ touchHistory = e.touchHistory
    /\ historyIndex = e.historyIndex
    /\ zones = e.zones
    /\ gestureState = e.gestureState
    /\ gestureStateTimeout = e.gestureStateTimeout
    /\ gestureStartPoint = e.gestureStartPoint
    /\ waterDropletsRejected = e.waterDropletsRejected
    /\ validTouches = e.validTouches
    /\ lastValidTouchTime = e.lastValidTouchTime
    /\ lastValidTouch = e.lastValidTouch
    /\ currentTouchCount = e.currentTouchCount
    /\ multiTouchPoints = e.multiTouchPoints

\* an engine able to accept samples, and a handler constructed on it
HandlerInit ==
    /\ \E st \in {SCREEN_CAPACITIVE, SCREEN_RESISTIVE} :
        LET s == Replay(NewSession(st), Usable(st))
        IN  /\ EngineIs(s.e)
            /\ now = s.now
            /\ call = s.call
            /\ ret = s.ret
            /\ path = s.path
            /\ acceptResults = s.acceptResults
            /\ foldResults = s.foldResults
            /\ recorded = s.recorded
    /\ HandlerConstructed
    /\ events = <<>>
    /\ eventSamples = <<>>
    /\ derived = <<>>
    /\ calls = 0

\* handler.handleTouch(x, y); garbage is what the uninitialised fields hold.
\* A sample is taken only while the clock can still run past the release
\* window after it.
HandleTouch(x, y, garbage) ==
    LET touch == [x |-> x, y |-> y, timestamp |-> now,
                  pressure |-> garbage.pressure, area |-> garbage.area,
                  valid |-> TRUE]
    IN  \E r \in {handleTouch(Engine, Handler, touch, now)} :
        /\ calls < MaxHandlerTouches
        /\ now + 2 * HandlerTick <= MaxTime
        /\ calls' = calls + 1
        /\ SetEngine(r.e)
        /\ SetHandler(r.h)
        /\ call' = [op |-> "handleTouch", touch |-> touch, flag |-> FALSE]
        /\ ret' = r.ret
        /\ path' = r.path
        /\ now' = now
        /\ acceptResults' = acceptResults + (IF r.ret THEN 1 ELSE 0)
        /\ foldResults' = foldResults + (IF r.path = "debounceAccept" THEN 1 ELSE 0)
        /\ recorded' = IF r.path = "accept" THEN Append(recorded, touch) ELSE recorded
        /\ events' = IF r.event # TOUCH_NONE THEN Append(events, r.event) ELSE events
        /\ eventSamples' = IF r.ret THEN Append(eventSamples, touch) ELSE eventSamples
        /\ derived' = IF r.ret THEN Append(derived, r.event) ELSE derived

\* handler.update(); the call's flag records whether a touch was in
\* progress
HandlerUpdate ==
    \E r \in {TouchEventHandler_update(Engine, Handler, now)} :
        /\ call' = [op |-> "handlerUpdate", touch |-> NoTouch,
                    flag |-> lastTouch.valid]
        /\ ret' = TRUE
        /\ path' = "none"
        /\ SetEngine(r.e)
        /\ SetHandler(r.h)
        /\ events' = IF r.ended THEN Append(events, TOUCH_END) ELSE events
        /\ UNCHANGED <<now, calls, acceptResults, foldResults, recorded,
                       eventSamples, derived>>

\* millis() advances between the host loop's calls
HandlerClock ==
    /\ now < MaxTime
    /\ now' = now + HandlerTick
    /\ call' = [op |-> "tick", touch |-> NoTouch, flag |-> FALSE]
    /\ ret' = TRUE
    /\ path' = "none"
    /\ UNCHANGED <<engineVars, handlerVars, calls, acceptResults, foldResults,
                   recorded, events, eventSamples, derived>>

HandlerNext ==
    \/ \E p \in HandlerPoints : \E g \in Uninitialised : HandleTouch(p[1], p[2], g)
    \/ HandlerUpdate
    \/ HandlerClock

\* the host loop keeps calling update and the clock keeps advancing
HandlerSpec ==
    /\ HandlerInit
    /\ [][HandlerNext]_vars
    /\ WF_vars(HandlerUpdate)
    /\ WF_vars(HandlerClock)

\* the engine driven through processMultiTouch, with single samples,
\* configuration changes and the clock in between
MultiNext ==
    \/ \E batch \in Batches : ProcessMultiTouch(batch)
    \/ \E d \in TimeSteps : Tick(d)
    \/ \E p \in InPoints : ProcessTouchXY(p[1], p[2])
    \/ SetConfig(MultiConfig(screenType))
    \/ Begin
    \/ EnableGestureMode

MultiSpec == Init /\ [][MultiNext]_vars

(***************************************************************************)
(* Event derivation called directly, on this engine and on a second engine *)
(* of the same program.  wasPressed and lastValidTouch of getTouchEvent    *)
(* are function statics: one copy serves every WaterRejectionTouch.        *)
(***************************************************************************)

\* getTouchEvent is called at most MaxEventCalls times
MaxEventCalls == 3

\* the TouchPoints passed to getTouchEvent: the handler's two positions,
\* valid and not valid
EventSamples ==
    {[x |-> p[1], y |-> p[2], timestamp |-> 0, pressure |-> 128, area |-> 10,
      valid |-> v] : p \in HandlerPoints, v \in BOOLEAN}

\* a second engine, as constructed
OtherInstance == Construct(screenType, ExampleWidth, ExampleHeight)

\* bookkeeping of a getTouchEvent call
CalledGetTouchEvent(op, current) ==
    /\ calls < MaxEventCalls
    /\ calls' = calls + 1
    /\ call' = [op |-> op, touch |-> current, flag |-> FALSE]
    /\ ret' = TRUE
    /\ path' = "none"
    /\ UNCHANGED <<engineVars, now, acceptResults, foldResults, recorded, events>>

\* getTouchEvent(current) on this engine
GetTouchEvent(current) ==
    \E r \in {getTouchEvent(Handler, current, config.minMovement)} :
        /\ SetHandler(r.h)
        /\ eventSamples' = Append(eventSamples, current)
        /\ derived' = Append(derived, r.event)
        /\ CalledGetTouchEvent("getTouchEvent", current)

\* getTouchEvent(current) on the second engine: the same statics, the
\* second engine's configuration
GetTouchEventOther(current) ==
    \E r \in {getTouchEvent(Handler, current, OtherInstance.config.minMovement)} :
        /\ SetHandler(r.h)
        /\ UNCHANGED <<eventSamples, derived>>
        /\ CalledGetTouchEvent("getTouchEventOther", current)

EventInit ==
    /\ \E st \in {SCREEN_CAPACITIVE, SCREEN_RESISTIVE} :
       \E s \in {NewSession(st)} :
            /\ EngineIs(s.e)
            /\ now = s.now
            /\ call = s.call
            /\ ret = s.ret
            /\ path = s.path
            /\ acceptResults = s.acceptResults
            /\ foldResults = s.foldResults
            /\ recorded = s.recorded
    /\ HandlerConstructed
    /\ events = <<>>
    /\ eventSamples = <<>>
    /\ derived = <<>>
    /\ calls = 0

EventNext ==
    \/ \E current \in EventSamples : GetTouchEvent(current)
    \/ \E current \in EventSamples : GetTouchEventOther(current)

EventSpec == EventInit /\ [][EventNext]_vars

(***************************************************************************)
(* The zone grid: samples in a 3x3 block of zone cells, the sweep and the  *)
(* clock, from engines whose grid already holds active cells.              *)
(***************************************************************************)

\* the centre of zone cell (5,5) of the example screen (cells are 24 x 16)
\* and the centres of its eight neighbours, and a point of the corner cell
\* (0,0), three of whose neighbours are off the grid
FilmCentre == <<132, 88>>
FilmNeighbours ==
    << <<108, 72>>, <<132, 72>>, <<156, 72>>, <<108, 88>>, <<156, 88>>,
       <<108, 104>>, <<132, 104>>, <<156, 104>> >>
ZonePoints ==
    {FilmCentre, <<0, 10>>} \cup {FilmNeighbours[i] : i \in 1..Len(FilmNeighbours)}

\* accepted samples in k neighbours of cell (5,5), 50 ms apart (past the
\* debounce interval)
FilmScript(st, k) ==
    Usable(st) \o
    [i \in 1..(2 * k - 1) |->
        IF i % 2 = 1
        THEN <<"touch", FilmNeighbours[(i + 1) \div 2][1], FilmNeighbours[(i + 1) \div 2][2]>>
        ELSE <<"tick", 50>>]

\* three accepted samples at the centre of cell (5,5), 200 ms apart
SlowRepeatScript(st) ==
    Usable(st) \o
    << <<"touch", FilmCentre[1], FilmCentre[2]>>, <<"tick", 200>>,
       <<"touch", FilmCentre[1], FilmCentre[2]>>, <<"tick", 200>>,
       <<"touch", FilmCentre[1], FilmCentre[2]>> >>

ZoneScripts(st) ==
    {FilmScript(st, 3), FilmScript(st, 4), FilmScript(st, 5), SlowRepeatScript(st),
     CornerScript(st), WaitingScript(st), ActiveScript(st)}

ZoneInit ==
    /\ \E st \in {SCREEN_CAPACITIVE, SCREEN_RESISTIVE} :
       \E script \in ZoneScripts(st) :
       \E s \in {Replay(NewSession(st), script)} :
            /\ EngineIs(s.e)
            /\ now = s.now
            /\ call = s.call
            /\ ret = s.ret
            /\ path = s.path
            /\ acceptResults = s.acceptResults
            /\ foldResults = s.foldResults
            /\ recorded = s.recorded
    /\ HandlerConstructed
    /\ events = <<>>
    /\ eventSamples = <<>>
    /\ derived = <<>>
    /\ calls = 0

ZoneNext ==
    \/ \E p \in ZonePoints : ProcessTouchXY(p[1], p[2])
    \/ \E d \in TimeSteps : Tick(d)
    \/ Update

ZoneSpec == ZoneInit /\ [][ZoneNext]_vars

(***************************************************************************)
(* Properties.  A step of the model is described by call', ret' and path'  *)
(* (the call made, its result, the return statement processTouch left      *)
(* through); unprimed variables are the engine before the call.            *)
(***************************************************************************)

\* the step is a processTouch call
IsProcessTouch == call'.op = "processTouch"

\* the call got past the admission gate and the gesture gate, to the
\* water-pattern tests
ReachedWaterTests == path' \in {"water", "static", "accept"}

\* the call got past the admission gate, to the gesture gate or beyond
ReachedGate == path' \in {"gesture", "water", "static", "accept"}

\* a sample outside [0,width) x [0,height) of the engine before the call
SampleOutside(t) ==
    t.x < 0 \/ t.x >= screenWidth \/ t.y < 0 \/ t.y >= screenHeight

\* C1: a processTouch call with a sample outside [0,width) x [0,height)
\* returns reject and leaves every field of the engine as it was: counters,
\* history and cursor, zone grid, gesture gate, debounce reference.
C1_OutOfBoundsRejectedUnchanged ==
    [][(IsProcessTouch /\ SampleOutside(call'.touch))
          => (ret' = FALSE /\ UNCHANGED engineVars)]_vars

\* C1 witness: an out-of-bounds sample was rejected by an engine that holds
\* accepted samples
C1_Witness ==
    /\ call.op = "processTouch"
    /\ SampleOutside(call.touch)
    /\ ret = FALSE
    /\ validTouches > 0
    /\ \E i \in 0..(HISTORY_SIZE - 1) : touchHistory[i].valid

\* C2 as stated: every processTouch call whose sample's area exceeds
\* maxTouchArea returns reject and increases the rejected counter by one,
\* whatever the position, timing or gesture-gate state.
C2_AnyOversizedRejectedAndCounted ==
    [][(IsProcessTouch /\ call'.touch.area > config.maxTouchArea)
          => (ret' = FALSE /\ waterDropletsRejected' = waterDropletsRejected + 1)]_vars

\* C2 amended: a sample whose area exceeds maxTouchArea and which gets past
\* the admission gate and the gesture gate is rejected by the water-pattern
\* test and the rejected counter increases by one.
C2_OversizedRejectedAndCounted ==
    [][(IsProcessTouch /\ ReachedWaterTests /\ call'.touch.area > config.maxTouchArea)
          => /\ ret' = FALSE
             /\ path' = "water"
             /\ waterDropletsRejected' = waterDropletsRejected + 1
             /\ validTouches' = validTouches]_vars

\* C2 witness: an oversized in-bounds sample was rejected and counted
C2_Witness ==
    /\ call.op = "processTouch"
    /\ call.touch.area > config.maxTouchArea
    /\ ~SampleOutside(call.touch)
    /\ path = "water"
    /\ ret = FALSE
    /\ waterDropletsRejected > 0

\* history entries that are valid, less than maxStaticTime older than sample
\* t and within the movement threshold of it in both axes
NearIdenticalRecent(t) ==
    {i \in 0..(HISTORY_SIZE - 1) :
        /\ touchHistory[i].valid
        /\ touchHistory[i].timestamp <= t.timestamp
        /\ t.timestamp - touchHistory[i].timestamp < config.maxStaticTime
        /\ Abs(touchHistory[i].x - t.x) < config.minMovement
        /\ Abs(touchHistory[i].y - t.y) < config.minMovement}

\* C3 as stated: with five accepted samples in the history that are near
\* the incoming sample and within maxStaticTime of it, a sample that reaches
\* the water-pattern tests is rejected and counted.
C3_SixthStaticRejected ==
    [][(IsProcessTouch /\ ReachedWaterTests
          /\ Cardinality(NearIdenticalRecent(call'.touch)) >= 5)
          => (ret' = FALSE /\ waterDropletsRejected' = waterDropletsRejected + 1)]_vars

\* C3 amended: with six such accepted samples in the history, the seventh
\* is rejected and counted; with exactly five and no other water pattern the
\* sample is still accepted.
C3_SeventhStaticRejected ==
    [][(IsProcessTouch /\ ReachedWaterTests
          /\ Cardinality(NearIdenticalRecent(call'.touch)) >= 6)
          => /\ ret' = FALSE
             /\ path' \in {"water", "static"}
             /\ waterDropletsRejected' = waterDropletsRejected + 1
             /\ UNCHANGED <<touchHistory, historyIndex, validTouches>>]_vars

\* C3 witness: a sample was rejected by the static test with six near,
\* recent, accepted samples in the history
C3_Witness ==
    /\ call.op = "processTouch"
    /\ path = "static"
    /\ ret = FALSE
    /\ Cardinality(NearIdenticalRecent(call.touch)) = 6
    /\ validTouches >= 6

\* the step is a processTouch call that consults the gesture gate: gating
\* is required and the sample got past the admission gate
GateConsulted == IsProcessTouch /\ config.requireGesture /\ ReachedGate

\* C4: with gesture gating enabled and the default edge threshold and swipe
\* distance, after an edge sample at x = 0 put the gate in Waiting, a sample
\* at any x >= 150 within the gesture timeout moves the gate to Active and
\* is approved by it; and every later sample up to the 30 s deadline is
\* approved too.
C4_SwipeOf150Activates ==
    [][/\ (/\ GateConsulted
           /\ gestureState = GESTURE_WAITING
           /\ gestureStartPoint.x = 0
           /\ config.edgeSwipeThreshold = 50
           /\ config.swipeMinDistance = 150
           /\ call'.touch.x >= 150
           /\ call'.touch.timestamp <= gestureStateTimeout)
          => (gestureState' = GESTURE_ACTIVE /\ path' # "gesture")
       /\ (/\ GateConsulted
           /\ gestureState = GESTURE_ACTIVE
           /\ call'.touch.timestamp <= gestureStateTimeout)
          => (gestureState' = GESTURE_ACTIVE /\ path' # "gesture")]_vars

\* C5: a sample that reaches a Waiting gate after its deadline puts the gate
\* back to Idle and is rejected, and so does a sweep after the deadline; the
\* gate becomes Active only from a Waiting gate whose deadline has not
\* passed, by a completing swipe, and becomes Waiting only from Idle, by an
\* edge sample that sets a new start point and a new deadline.
C5_ExpiredWaitingNeverActivates ==
    [][/\ (/\ GateConsulted
           /\ gestureState = GESTURE_WAITING
           /\ call'.touch.timestamp > gestureStateTimeout)
          => (gestureState' = GESTURE_IDLE /\ ret' = FALSE /\ path' = "gesture")
       /\ (/\ call'.op = "update"
           /\ gestureState = GESTURE_WAITING
           /\ now > gestureStateTimeout)
          => gestureState' = GESTURE_IDLE
       /\ (gestureState' = GESTURE_ACTIVE /\ gestureState # GESTURE_ACTIVE)
          => /\ GateConsulted
             /\ gestureState = GESTURE_WAITING
             /\ call'.touch.timestamp <= gestureStateTimeout
             /\ call'.touch.x - gestureStartPoint.x > config.swipeMinDistance
       /\ (gestureState' = GESTURE_WAITING /\ gestureState # GESTURE_WAITING)
          => /\ GateConsulted
             /\ gestureState = GESTURE_IDLE
             /\ call'.touch.x < config.edgeSwipeThreshold
             /\ gestureStartPoint' = call'.touch
             /\ gestureStateTimeout' = call'.touch.timestamp + config.gestureTimeout
             /\ ret' = FALSE]_vars

\* C5 witness: the gate, put in Waiting by an edge sample at x = 0, was sent
\* back to Idle by a sample that arrived after the Waiting deadline
C5_Witness ==
    /\ call.op = "processTouch"
    /\ config.requireGesture
    /\ path = "gesture"
    /\ ret = FALSE
    /\ gestureState = GESTURE_IDLE
    /\ gestureStartPoint.x = 0
    /\ gestureStateTimeout = gestureStartPoint.timestamp + config.gestureTimeout
    /\ call.touch.timestamp > gestureStateTimeout

\* C6: while gesture gating is enabled, processTouch returns accept only
\* with the gesture gate Active when the call returns.
C6_AcceptOnlyWhenGateActive ==
    (call.op = "processTouch" /\ ret /\ config.requireGesture)
        => gestureState = GESTURE_ACTIVE

\* C7: in every reachable state gesture gating disabled implies the gate is
\* Idle, and while gating is disabled no sample is rejected by the gate.
C7_DisabledGateIsIdle ==
    /\ [](~config.requireGesture => gestureState = GESTURE_IDLE)
    /\ [][(IsProcessTouch /\ ~config.requireGesture) => path' # "gesture"]_vars

\* what an accepting call has done to the engine by the time it returns:
\* the sample is in the history slot under the old cursor and the cursor has
\* moved on, the sample's zone cell is active with both times the sample's
\* timestamp, the accepted counter is one higher and the sample is the
\* debounce reference
AcceptEffects(t) ==
    LET zx == (t.x * ZONE_GRID_SIZE) \div screenWidth
        zy == (t.y * ZONE_GRID_SIZE) \div screenHeight
    IN  /\ touchHistory' = [touchHistory EXCEPT ![historyIndex] = t]
        /\ historyIndex' = (historyIndex + 1) % HISTORY_SIZE
        /\ zones'[zx][zy].active
        /\ zones'[zx][zy].activationTime = t.timestamp
        /\ zones'[zx][zy].lastTouchTime = t.timestamp
        /\ validTouches' = validTouches + 1
        /\ lastValidTouch' = t
        /\ lastValidTouchTime' = t.timestamp

\* C8 as stated: every processTouch call that returns accept has appended
\* the sample to the history, marked its zone cell, increased the accepted
\* counter by one and recorded the debounce reference; so the accepted
\* counter equals the number of accept results since the last reset.
C8_EveryAcceptRecorded ==
    /\ [](validTouches = acceptResults)
    /\ [][(IsProcessTouch /\ ret') => AcceptEffects(call'.touch)]_vars

\* C8 amended: every accept other than a resistive debounce fold has those
\* effects, a debounce fold changes nothing, and the accepted counter equals
\* the number of accept results since the last reset minus the folds.
C8_NonFoldAcceptRecorded ==
    /\ [](validTouches = acceptResults - foldResults)
    /\ [][/\ (IsProcessTouch /\ ret' /\ path' # "debounceAccept")
             => AcceptEffects(call'.touch)
          /\ (IsProcessTouch /\ ret' /\ path' = "debounceAccept")
             => (screenType = SCREEN_RESISTIVE /\ UNCHANGED engineVars)]_vars

\* C8 witness: an accept that was recorded, in an engine that has also
\* returned a debounce fold
C8_Witness ==
    /\ call.op = "processTouch"
    /\ ret
    /\ path = "accept"
    /\ lastValidTouch = call.touch
    /\ touchHistory[(historyIndex + HISTORY_SIZE - 1) % HISTORY_SIZE] = call.touch
    /\ foldResults > 0
    /\ validTouches = acceptResults - foldResults

\* C9: a processTouch call whose sample is rejected by a water-pattern test
\* leaves the history and every field of every zone cell as they were.
C9_WaterRejectLeavesZones ==
    [][(IsProcessTouch /\ path' \in {"water", "static"})
          => UNCHANGED <<touchHistory, historyIndex, zones>>]_vars

\* C10: in one processTouch call the rejected counter increases by exactly
\* one if the sample is rejected by a water-pattern test and is unchanged
\* otherwise; the accepted counter increases by one on a recorded accept and
\* is unchanged otherwise; a rejection by the bounds, pressure or debounce
\* check or by the gesture gate changes neither; no call changes their sum
\* by more than one.
C10_OnlyWaterRejectsCounted ==
    [][IsProcessTouch =>
        /\ (path' \in {"water", "static"})
              <=> (waterDropletsRejected' = waterDropletsRejected + 1)
        /\ (path' \notin {"water", "static"})
              <=> (waterDropletsRejected' = waterDropletsRejected)
        /\ (path' \in {"water", "static"}) => (ret' = FALSE)
        /\ (path' \in {"bounds", "pressure", "debounceReject", "gesture"})
              => /\ ret' = FALSE
                 /\ UNCHANGED <<waterDropletsRejected, validTouches>>
        /\ validTouches' \in {validTouches, validTouches + 1}
        /\ (validTouches' + waterDropletsRejected')
              - (validTouches + waterDropletsRejected) \in {0, 1}]_vars

\* C10 witness: a sample of ordinary area was rejected by the zone-activity
\* test and counted, in an engine that had accepted samples before
C10_Witness ==
    /\ call.op = "processTouch"
    /\ path = "water"
    /\ ret = FALSE
    /\ call.touch.area <= config.maxTouchArea
    /\ waterDropletsRejected = 1
    /\ validTouches > 0
    /\ validTouches = acceptResults - foldResults

\* the slot the k-th most recent insertion went to (k = 0 is the newest)
SlotOfNewest(k) == (historyIndex + HISTORY_SIZE - 1 - k) % HISTORY_SIZE

\* C11: the write cursor stays in [0, HISTORY_SIZE) in every reachable
\* state; each insertion overwrites the slot under the cursor, which holds
\* the oldest sample once the ring is full, and moves the cursor on; so the
\* history holds exactly the most recently stored samples, newest first
\* behind the cursor, and after HISTORY_SIZE + 1 insertions the first
\* sample stored has been evicted.
C11_RingKeepsNewest ==
    /\ [](historyIndex \in 0..(HISTORY_SIZE - 1))
    /\ [](\A k \in 0..(HISTORY_SIZE - 1) :
            k < Len(recorded) =>
               touchHistory[SlotOfNewest(k)] = recorded[Len(recorded) - k])
    /\ []((/\ Len(recorded) > HISTORY_SIZE
           /\ \A j \in 2..Len(recorded) : recorded[j] # recorded[1])
            => \A i \in 0..(HISTORY_SIZE - 1) : touchHistory[i] # recorded[1])
    /\ [][(Len(recorded') = Len(recorded) + 1)
            => /\ touchHistory' = [touchHistory EXCEPT ![historyIndex] = call'.touch]
               /\ historyIndex' = (historyIndex + 1) % HISTORY_SIZE
               /\ (Len(recorded) >= HISTORY_SIZE
                     => touchHistory[historyIndex]
                          = recorded[Len(recorded) - HISTORY_SIZE + 1])]_vars

\* C11 witness: HISTORY_SIZE + 1 samples have been stored, the cursor has
\* wrapped past slot 0, and the first of them is in no slot
C11_Witness ==
    /\ Len(recorded) = HISTORY_SIZE + 1
    /\ call.op = "processTouch"
    /\ path = "accept"
    /\ historyIndex = 1
    /\ touchHistory[0] = recorded[HISTORY_SIZE + 1]
    /\ \A i \in 0..(HISTORY_SIZE - 1) : touchHistory[i] # recorded[1]

\* C12: resetStatistics sets both counters to zero and leaves the
\* configuration, the history and its cursor, every zone cell, the gesture
\* gate's state, deadline and start point, and the debounce reference as
\* they were.
C12_ResetStatisticsFrame ==
    [][(call'.op = "resetStatistics")
          => /\ validTouches' = 0
             /\ waterDropletsRejected' = 0
             /\ UNCHANGED <<config, touchHistory, historyIndex, zones,
                            gestureState, gestureStateTimeout, gestureStartPoint,
                            lastValidTouchTime, lastValidTouch, screenType,
                            screenWidth, screenHeight>>]_vars

\* C12 witness: the counters were zeroed in an engine whose history and
\* zone grid hold accepted samples and whose gesture gate is Active
C12_Witness ==
    /\ call.op = "resetStatistics"
    /\ validTouches = 0
    /\ waterDropletsRejected = 0
    /\ Len(recorded) > 0
    /\ \E i \in 0..(HISTORY_SIZE - 1) : touchHistory[i].valid
    /\ \E zx, zy \in 0..(ZONE_GRID_SIZE - 1) : zones[zx][zy].active
    /\ gestureState = GESTURE_ACTIVE

\* the step is a processMultiTouch call
IsMultiTouch == call'.op = "processMultiTouch"

\* the positions of a batch
Positions(touches) == [i \in 1..Len(touches) |-> <<touches[i].x, touches[i].y>>]

\* what the single-sample pipeline can write
PipelineState ==
    <<touchHistory, historyIndex, zones, gestureState, gestureStateTimeout,
      gestureStartPoint, lastValidTouchTime, lastValidTouch, validTouches>>

\* C13: a processMultiTouch call whose count exceeds maxSimultaneousTouches
\* returns reject from the limit check, before any sample is given to
\* processTouch: the history, the zone grid, the gesture gate, the debounce
\* reference and the accepted counter are as they were.
C13_OverLimitBatchRejected ==
    [][(IsMultiTouch /\ Len(call'.touches) > config.maxSimultaneousTouches)
          => /\ ret' = FALSE
             /\ path' = "limit"
             /\ UNCHANGED PipelineState
             /\ UNCHANGED <<acceptResults, foldResults, recorded>>]_vars

\* C13 witness: a batch of three was rejected by the limit check of an
\* engine that holds accepted samples
C13_Witness ==
    /\ call.op = "processMultiTouch"
    /\ Len(call.touches) = 3
    /\ Len(call.touches) > config.maxSimultaneousTouches
    /\ path = "limit"
    /\ ret = FALSE
    /\ validTouches > 0
    /\ currentTouchCount = 3

\* the mean Euclidean distance over all pairs of the batch is below 50
\* (decided from the distances rounded down to sixteenths)
MeanDistanceBelow50(touches) ==
    LET pairs == {pr \in (1..Len(touches)) \X (1..Len(touches)) : pr[1] < pr[2]}
        dist == [pr \in pairs |-> Distance16(touches[pr[1]], touches[pr[2]])]
    IN  /\ pairs # {}
        /\ SumOver(dist, pairs) + Cardinality(pairs) <= 50 * 16 * Cardinality(pairs)

\* C14: a processMultiTouch call with more than 2 samples whose mean
\* pairwise distance is below 50 is rejected before any sample is given to
\* processTouch, by the cluster-density test when the count is within the
\* simultaneous-touch limit (and by the limit check otherwise), and is
\* counted as rejected; the batch (10,10), (11,11), (12,12) is one of them.
C14_TightBatchRejected ==
    [][(/\ IsMultiTouch
        /\ Len(call'.touches) > 2
        /\ MeanDistanceBelow50(call'.touches))
          => /\ ret' = FALSE
             /\ path' \in {"limit", "pattern"}
             /\ (Len(call'.touches) <= config.maxSimultaneousTouches
                   => path' = "pattern")
             /\ waterDropletsRejected' = waterDropletsRejected + 1
             /\ UNCHANGED PipelineState]_vars

\* C14 witness: the batch (10,10), (11,11), (12,12) was rejected by the
\* pattern test of an engine that allows three simultaneous touches
C14_Witness ==
    /\ call.op = "processMultiTouch"
    /\ Positions(call.touches) = << <<10, 10>>, <<11, 11>>, <<12, 12>> >>
    /\ MeanDistanceBelow50(call.touches)
    /\ config.maxSimultaneousTouches >= 3
    /\ path = "pattern"
    /\ ret = FALSE
    /\ waterDropletsRejected > 0

\* the sparse batch of the specification
SparseBatch == << <<10, 10>>, <<200, 50>>, <<400, 300>> >>

\* C15 as stated: with the default configuration the batch (10,10),
\* (200,50), (400,300) is not rejected at the batch stage and its samples
\* go through the single-sample pipeline.
C15_SparseBatchPassesOnDefaults ==
    [][(/\ IsMultiTouch
        /\ Positions(call'.touches) = SparseBatch
        /\ config = DefaultConfig(screenType))
          => path' = "samples"]_vars

\* C15 amended: the batch (10,10), (200,50), (400,300) passes the
\* cluster-density and line tests, so with a configuration that allows
\* three simultaneous touches its samples go through the single-sample
\* pipeline and the call returns whether one of them was accepted; with a
\* lower limit, as in the default configurations, the limit check rejects
\* it.
C15_SparseBatchPassesPatternTests ==
    [][(IsMultiTouch /\ Positions(call'.touches) = SparseBatch)
          => IF config.maxSimultaneousTouches >= 3
             THEN /\ path' = "samples"
                  /\ ret' = (acceptResults' > acceptResults)
                  /\ multiTouchPoints'[0] = call'.touches[1]
                  /\ multiTouchPoints'[1] = call'.touches[2]
                  /\ multiTouchPoints'[2] = call'.touches[3]
             ELSE /\ path' = "limit"
                  /\ ret' = FALSE
                  /\ UNCHANGED PipelineState]_vars

\* C15 witness: the sparse batch went through the pipeline of an engine
\* that allows three simultaneous touches, and all three samples were
\* accepted
C15_Witness ==
    /\ call.op = "processMultiTouch"
    /\ Positions(call.touches) = SparseBatch
    /\ config.maxSimultaneousTouches >= 3
    /\ path = "samples"
    /\ ret = TRUE
    /\ Len(recorded) >= 3
    /\ touchHistory[(historyIndex + HISTORY_SIZE - 1) % HISTORY_SIZE] = call.touches[3]

\* the step is a calibration call
IsCalibration == call'.op \in {"calibrateForEnvironment", "setWetModeEnabled"}

\* the configuration calibration gives a newly constructed engine
Preset(st, wetEnvironment) ==
    calibrateForEnvironment(Construct(st, ExampleWidth, ExampleHeight),
                            wetEnvironment).config

\* C16: after calibrateForEnvironment(env) or setWetModeEnabled(env) the
\* whole configuration is the preset of (technology, env), whatever
\* setConfig, begin, setMaxTouchArea or earlier calibrations had set.
C16_CalibrationReplacesConfig ==
    [][IsCalibration => config' = Preset(screenType, call'.flag)]_vars

C20_ActiveUntilFixedDeadline ==
    [][/\ (gestureState' = GESTURE_ACTIVE /\ gestureState # GESTURE_ACTIVE)
          => gestureStateTimeout' = call'.touch.timestamp + 30000
       /\ (/\ GateConsulted
           /\ gestureState = GESTURE_ACTIVE
           /\ call'.touch.timestamp <= gestureStateTimeout)
          => /\ gestureState' = GESTURE_ACTIVE
             /\ path' # "gesture"
       /\ (gestureState = GESTURE_ACTIVE /\ gestureState' = GESTURE_ACTIVE)
          => gestureStateTimeout' = gestureStateTimeout
       /\ (/\ GateConsulted
           /\ gestureState = GESTURE_ACTIVE
           /\ call'.touch.timestamp > gestureStateTimeout)
          => /\ gestureState' = GESTURE_IDLE
             /\ ret' = FALSE
             /\ path' = "gesture"
       /\ (/\ call'.op = "update"
           /\ gestureState = GESTURE_ACTIVE
           /\ now > gestureStateTimeout)
          => gestureState' = GESTURE_IDLE]_vars

\* C20 witness: the gate, activated by an accepted swipe, was sent back to
\* Idle by a sample that arrived after the 30000 ms deadline
C20_Witness ==
    /\ call.op = "processTouch"
    /\ config.requireGesture
    /\ path = "gesture"
    /\ ret = FALSE
    /\ gestureState = GESTURE_IDLE
    /\ Len(recorded) > 0
    /\ gestureStateTimeout = recorded[Len(recorded)].timestamp + 30000
    /\ call.touch.timestamp > gestureStateTimeout

\* the step is a handleTouch call whose sample the filter accepted
HandlerAccepted == call'.op = "handleTouch" /\ ret'

\* Start and End alternate in evs beginning with Start, and Move occurs
\* only after a Start or a Move
EventsAlternate(evs) ==
    \A i \in 1..Len(evs) :
        /\ evs[i] = TOUCH_START => (i = 1 \/ evs[i - 1] = TOUCH_END)
        /\ evs[i] \in {TOUCH_MOVE, TOUCH_END}
              => (i > 1 /\ evs[i - 1] \in {TOUCH_START, TOUCH_MOVE})

\* C18: the first sample the handler accepts after a release (no touch in
\* progress: at the start, or after the sweep has synthesized an End)
\* produces Start; so in the stream of events Start and End alternate,
\* beginning with Start, and Move occurs only between a Start and the
\* following End.
C18_StartAfterRelease ==
    /\ [][(HandlerAccepted /\ ~lastTouch.valid)
            => (lastEvent' = TOUCH_START /\ events' = Append(events, TOUCH_START))]_vars
    /\ [](EventsAlternate(events))

\* the step is a handler update
IsHandlerUpdate == call'.op = "handlerUpdate"

\* the release window has passed for the last accepted sample
ReleaseDue == lastTouch.valid /\ now - lastTouch.timestamp > 100

\* C19: once handleTouch has accepted a sample, an End for it is eventually
\* produced by update unless the sample is still the touch in progress
\* (update keeps being called and the clock keeps advancing); the End is
\* produced by the first update more than 100 ms after the last accepted
\* sample, by no update before that, and by no later update until another
\* sample has been accepted.
C19_SweepEndsSilentTouch ==
    /\ [][(IsHandlerUpdate /\ ReleaseDue)
            => /\ events' = Append(events, TOUCH_END)
               /\ lastEvent' = TOUCH_END
               /\ ~lastTouch'.valid]_vars
    /\ [][(IsHandlerUpdate /\ ~ReleaseDue)
            => (events' = events /\ lastTouch' = lastTouch)]_vars
    /\ [][(lastTouch'.valid /\ ~lastTouch.valid) => HandlerAccepted]_vars
    /\ (lastTouch.valid ~> (~lastTouch.valid /\ lastEvent = TOUCH_END))

\* C19 witness: update produced the End of an accepted sample after the
\* release window, and a later update, with no touch in progress, produced
\* nothing more
C19_Witness ==
    /\ call.op = "handlerUpdate"
    /\ ~call.flag
    /\ ~lastTouch.valid
    /\ lastEvent = TOUCH_END
    /\ events = <<TOUCH_START, TOUCH_END>>
    /\ now - lastTouch.timestamp > 100
    /\ validTouches = 1

\* whether the Pearson coefficient r of x versus y over the batch has
\* |r| > 0.9, i.e. (n*Sxy - Sx*Sy)^2 > 0.81 * (n*Sxx - Sx^2) * (n*Syy - Sy^2)
\* with both variance terms non-zero: {TRUE} or {FALSE} where the integer
\* square roots decide it, both where they do not
PearsonAbove09(touches) ==
    LET n == Len(touches)
        idx == 1..n
        Sx == SumOver([i \in idx |-> touches[i].x], idx)
        Sy == SumOver([i \in idx |-> touches[i].y], idx)
        Sxy == SumOver([i \in idx |-> touches[i].x * touches[i].y], idx)
        Sxx == SumOver([i \in idx |-> touches[i].x * touches[i].x], idx)
        Syy == SumOver([i \in idx |-> touches[i].y * touches[i].y], idx)
        num == Abs(n * Sxy - Sx * Sy)
        varX == n * Sxx - Sx * Sx
        varY == n * Syy - Sy * Sy
    IN  IF varX = 0 \/ varY = 0 THEN {FALSE}
        ELSE IF 10 * num > 9 * (ISqrt(varX) + 1) * (ISqrt(varY) + 1) THEN {TRUE}
        ELSE IF 10 * num <= 9 * ISqrt(varX) * ISqrt(varY) THEN {FALSE}
        ELSE {TRUE, FALSE}

\* the mean Euclidean distance over all pairs of the batch is 50 or more
\* (decided from the distances rounded down to sixteenths)
MeanDistanceAtLeast50(touches) ==
    LET pairs == {pr \in (1..Len(touches)) \X (1..Len(touches)) : pr[1] < pr[2]}
        dist == [pr \in pairs |-> Distance16(touches[pr[1]], touches[pr[2]])]
    IN  /\ pairs # {}
        /\ SumOver(dist, pairs) >= 50 * 16 * Cardinality(pairs)

\* C21: a processMultiTouch call with 3 or more samples, within the
\* simultaneous-touch limit and with a mean pairwise distance of 50 or
\* more, is rejected by the batch pattern test exactly when the Pearson
\* coefficient of x versus y over its points has magnitude above 0.9.
C21_ColinearityIsPearson ==
    [][(/\ IsMultiTouch
        /\ Len(call'.touches) >= 3
        /\ Len(call'.touches) <= config.maxSimultaneousTouches
        /\ MeanDistanceAtLeast50(call'.touches))
          => \A r \in BOOLEAN :
                 PearsonAbove09(call'.touches) = {r} => ((path' = "pattern") = r)]_vars

\* the zone cell of a sample
CellOf(t) == <<ZoneOf(t.x, screenWidth), ZoneOf(t.y, screenHeight)>>

\* how many of the 8 cells adjacent to cell c, on the grid, are active with
\* a last-activity age at time t below the zone timeout
AdjacentActive(c, t) ==
    Cardinality({d \in ((-1..1) \X (-1..1)) \ {<<0, 0>>} :
        LET nx == c[1] + d[1]
            ny == c[2] + d[2]
        IN  /\ nx \in 0..(ZONE_GRID_SIZE - 1)
            /\ ny \in 0..(ZONE_GRID_SIZE - 1)
            /\ zones[nx][ny].active
            /\ t - zones[nx][ny].lastTouchTime < config.touchTimeout})

\* the rapid-repeat rule rejects a sample at time t in cell c: the cell is
\* active, was activated under 100 ms ago and its counter goes above 3
RapidRepeatRejects(c, t) ==
    /\ zones[c[1]][c[2]].active
    /\ t - zones[c[1]][c[2]].activationTime < 100
    /\ zones[c[1]][c[2]].touchCount + 1 > 3

\* C22: a sample that got past the gates, is not oversized and is not
\* rejected by the rapid-repeat rule is rejected as water if and only if
\* more than 4 of the 8 cells adjacent to its own cell are active with an
\* age below the zone timeout; its own cell and cells off the grid are not
\* counted.
C22_FilmCountsEightNeighbours ==
    [][(/\ IsProcessTouch
        /\ ReachedWaterTests
        /\ call'.touch.area <= config.maxTouchArea
        /\ ~RapidRepeatRejects(CellOf(call'.touch), now))
          => ((path' = "water") <=> (AdjacentActive(CellOf(call'.touch), now) > 4))]_vars

\* C23: when an accepted sample updates its zone cell, the cell's in-window
\* counter becomes 1 if the cell was inactive or was last activated 100 ms
\* or more before the sample, and grows only if it was activated less than
\* 100 ms before the sample.
C23_ZoneCounterWindowed ==
    [][(IsProcessTouch /\ path' = "accept")
          => LET c == CellOf(call'.touch)
                 z == zones[c[1]][c[2]]
             IN  IF z.active /\ call'.touch.timestamp - z.activationTime < 100
                 THEN zones'[c[1]][c[2]].touchCount > z.touchCount
                 ELSE zones'[c[1]][c[2]].touchCount = 1]_vars

\* the step is an update() call
IsUpdate == call'.op = "update"

\* the age of a zone cell at time t is above the zone timeout
ZoneExpired(z, t) == z.active /\ t - z.lastTouchTime > config.touchTimeout

\* the gesture gate is Waiting or Active and time t is past its deadline
GateExpired(t) ==
    gestureState \in {GESTURE_WAITING, GESTURE_ACTIVE} /\ t > gestureStateTimeout

\* C24: after update() at time t every zone cell that was active with
\* t - lastTouchTime above the zone timeout is inactive with count 0 (so no
\* such cell is left active), every other cell is as it was, the gesture
\* gate is Idle if it was Waiting or Active with t past its deadline and
\* as it was otherwise, and the history, the counters, the configuration
\* and every other field are as they were.
C24_UpdateFrame ==
    [][IsUpdate
          => /\ \A zx, zy \in 0..(ZONE_GRID_SIZE - 1) :
                  /\ zones'[zx][zy] =
                        IF ZoneExpired(zones[zx][zy], now)
                        THEN [zones[zx][zy] EXCEPT !.active = FALSE, !.touchCount = 0]
                        ELSE zones[zx][zy]
                  /\ ~(/\ zones'[zx][zy].active
                       /\ now' - zones'[zx][zy].lastTouchTime > config'.touchTimeout)
             /\ gestureState' = IF GateExpired(now) THEN GESTURE_IDLE ELSE gestureState
             /\ UNCHANGED <<touchHistory, historyIndex, waterDropletsRejected,
                            validTouches, config, gestureStateTimeout,
                            gestureStartPoint, lastValidTouchTime, lastValidTouch,
                            currentTouchCount, multiTouchPoints, screenType,
                            screenWidth, screenHeight, recorded>>]_vars

\* C24 witness: an update() has cleared an expired zone cell and has
\* returned to Idle a gesture gate whose deadline has passed, on an engine
\* that had accepted samples
C24_Witness ==
    /\ call.op = "update"
    /\ validTouches > 0
    /\ \E zx, zy \in 0..(ZONE_GRID_SIZE - 1) :
          /\ ~zones[zx][zy].active
          /\ zones[zx][zy].touchCount = 0
          /\ zones[zx][zy].lastTouchTime > 0
          /\ now - zones[zx][zy].lastTouchTime > config.touchTimeout
    /\ config.requireGesture
    /\ gestureState = GESTURE_IDLE
    /\ gestureStateTimeout > 0
    /\ now > gestureStateTimeout

\* the call left through the debounce check
DebounceDecided == path' \in {"debounceAccept", "debounceReject"}

\* a sample has been accepted since construction or begin(), and sample t
\* arrives less than debounceTime after the last one accepted
InWindowOfAccepted(t) ==
    /\ Len(recorded) > 0
    /\ t.timestamp - recorded[Len(recorded)].timestamp < config.debounceTime

\* sample t is less than minMovement from sample u in both axes
NearSample(t, u) ==
    Abs(t.x - u.x) < config.minMovement /\ Abs(t.y - u.y) < config.minMovement

\* C25: on resistive technology with debounceTime > 0, an in-bounds sample
\* that passes the pressure check is decided by the debounce check exactly
\* when it arrives less than debounceTime after the last sample accepted
\* since construction or begin(); it is then accepted if it is less than
\* minMovement from that sample in both axes and rejected otherwise, and
\* the engine is unchanged.
C25_DebounceNeedsAcceptedSample ==
    [][(/\ IsProcessTouch
        /\ screenType = SCREEN_RESISTIVE
        /\ config.debounceTime > 0
        /\ ~SampleOutside(call'.touch)
        /\ ~(config.pressureThreshold > 0
               /\ call'.touch.pressure < config.pressureThreshold))
          => /\ DebounceDecided <=> InWindowOfAccepted(call'.touch)
             /\ DebounceDecided
                  => /\ ret' = NearSample(call'.touch, recorded[Len(recorded)])
                     /\ UNCHANGED engineVars]_vars

\* the resistive default configuration and the two resistive calibration
\* presets
ResistiveConfigs ==
    {DefaultConfig(SCREEN_RESISTIVE), Preset(SCREEN_RESISTIVE, FALSE),
     Preset(SCREEN_RESISTIVE, TRUE)}

\* C26: on resistive technology with the default configuration or one of
\* the two calibration presets, an in-bounds sample submitted with
\* processTouch(x, y), whose pressure is the default 128, is not rejected
\* by the pressure check.
C26_DefaultPressurePasses ==
    [][(/\ IsProcessTouch
        /\ screenType = SCREEN_RESISTIVE
        /\ config \in ResistiveConfigs
        /\ call'.touch.pressure = 128
        /\ ~SampleOutside(call'.touch))
          => path' # "pressure"]_vars

\* the events getTouchEvent returns for the samples seq when no other call
\* touches its press flag and tracked point, starting from h
RECURSIVE EventsOf(_, _)
EventsOf(h, seq) ==
    IF seq = <<>> THEN <<>>
    ELSE LET r == getTouchEvent(h, Head(seq), config.minMovement)
         IN  <<r.event>> \o EventsOf(r.h, Tail(seq))

\* C27: the events getTouchEvent has returned on this engine are those its
\* own samples give from a released press flag, whatever getTouchEvent
\* calls were made on a second engine in between.
C27_EventStatePerInstance ==
    derived = EventsOf([lastTouch |-> ZeroPoint, lastEvent |-> TOUCH_NONE,
                        wasPressed |-> FALSE, eventLastValidTouch |-> ZeroPoint],
                       eventSamples)

\* all samples of the batch share one x coordinate or share one y
\* coordinate
SharesCoordinate(touches) ==
    \/ \A i \in 1..Len(touches) : touches[i].x = touches[1].x
    \/ \A i \in 1..Len(touches) : touches[i].y = touches[1].y

\* the batch of the call reaches the line test: 3 or more samples, within
\* the simultaneous-touch limit, not rejected by cluster density
ReachesLineTest ==
    /\ IsMultiTouch
    /\ Len(call'.touches) >= 3
    /\ Len(call'.touches) <= config.maxSimultaneousTouches
    /\ MeanDistanceAtLeast50(call'.touches)

\* C28: when a batch whose samples all share one x or all share one y
\* reaches the line test, the test divides by no zero denominator: both
\* factors under the root of the denominator it divides by are non-zero.
C28_DegenerateDenominatorGuarded ==
    [][(ReachesLineTest /\ SharesCoordinate(call'.touches))
          => LET f == LineDenominatorFactors(
                          [currentTouchCount |-> currentTouchCount',
                           multiTouchPoints |-> multiTouchPoints'])
             IN  f.varX # 0 /\ f.varY # 0]_vars
====
